---- MODULE Spec2Model ----
(***************************************************************************)
(* A model of the PoorGo compiler front end (danimal141/poor-go):          *)
(*   - the two Lexer classes (the comment-aware one of                     *)
(*     src/src/lexer/lexer.ts and the auto-semicolon one of                *)
(*     src/unnamed/part_011),                                              *)
(*   - the recursive-descent Parser of src/unnamed/part_005,               *)
(*   - the SemanticAnalyzer of src/src/semantic/analyzer.ts (l. 403-607).  *)
(*   - the LLVMGenerator of src/src/codegen/generator.ts (l. 12-242),     *)
(*   - the build command of src/main.ts (l. 89-98),                        *)
(*   - the ErrorCollector of src/unnamed/part_013 (l. 61-101),             *)
(*   - CompilerPipeline.compile of src/src/compiler/pipeline.ts            *)
(*     (l. 102-239).                                                       *)
(* Characters are one-character strings, "" is the end-of-input character  *)
(* exactly as in the source; a source text is a sequence of characters.    *)
(***************************************************************************)
EXTENDS Integers, Sequences, FiniteSets, TLC

VARIABLES
    lexer,      \* the Lexer object: input, position, readPosition, ch, line, column, lastToken
    scanned,    \* the tokens returned so far by nextToken (the `tokens` array of scan())
    lexError,   \* NoError, or the error thrown by nextToken
    given,      \* how the token stream given to the Parser was put together
    tokens,     \* the tokens the Parser's lexer returns before EOF
    pos,        \* the index in the token stream of Parser.currentToken
    currentToken, \* Parser.currentToken
    peekToken,  \* Parser.peekToken
    pc,         \* where parseProgram and analyze are
    program,    \* the Program built by parseProgram, given to analyze
    parseError, \* NoError, or the error thrown by parseProgram
    scopeStack, \* SemanticAnalyzer.scopeStack
    declIndex,  \* the declaration the loop of analyze is at; 0 before the loop
    inferred,   \* the type the last inferType call of analyzeStatement returned
    semanticError, \* NoSemanticError, or the error thrown by analyze
    generator,  \* the LLVMGenerator object: output, varCounter, stringCounter
    irTexts,    \* the IR texts the generate calls returned so far, in order
    genError,   \* NoError, or the error thrown by generate
    collector,  \* the ErrorCollector object: errors, a reference to an array
    heap,       \* the arrays that exist, each a sequence; a reference is an index
    calls,      \* the calls made on the ErrorCollector and what each returned
    disk,       \* the files that exist, by path
    compile     \* CompilerPipeline.compile: its options, locals and result

lexVars == <<lexer, scanned, lexError>>

parserVars == <<given, tokens, pos, currentToken, peekToken, pc, program, parseError>>

analyzerVars == <<scopeStack, declIndex, inferred, semanticError>>

genVars == <<generator, irTexts, genError>>

collectorVars == <<collector, heap, calls>>

toolVars == <<disk, compile>>

vars == <<lexer, scanned, lexError, given, tokens, pos, currentToken, peekToken,
          pc, program, parseError, scopeStack, declIndex, inferred, semanticError,
          generator, irTexts, genError, collector, heap, calls, disk, compile>>

-----------------------------------------------------------------------------
(* Bounds of the model *)

\* longest source text given to a Lexer
MaxLen == 4
\* number of nextToken calls made after the end of input was first reported
MaxEOFCalls == 2
\* longest text of operators and delimiters given to the comment-aware Lexer
MaxOperators == 3

-----------------------------------------------------------------------------
(* Characters *)

Letters ==
    {"a","b","c","d","e","f","g","h","i","j","k","l","m","n","o","p","q","r","s",
     "t","u","v","w","x","y","z","A","B","C","D","E","F","G","H","I","J","K","L",
     "M","N","O","P","Q","R","S","T","U","V","W","X","Y","Z","_"}

Digits == {"0","1","2","3","4","5","6","7","8","9"}

isLetter(c) == c \in Letters

isDigit(c) == c \in Digits

isWhitespace(c) == c = " " \/ c = "\t" \/ c = "\n" \/ c = "\r"

\* the characters the auto-semicolon Lexer is run on
SemiAlphabet == {"i", "f", "n", "1", " ", "\n", "\"", "\\", ")", "+"}

\* the characters the comment-aware Lexer is run on
CommentAlphabet == {"a", "1", " ", "\n", "\"", "/", "*", "=", ";"}

TextsOver(alphabet) == UNION {[1..n -> alphabet] : n \in 0..MaxLen}

-----------------------------------------------------------------------------
(* Tokens: src/src/lexer/token.ts *)

KEYWORDS ==
    { [literal |-> <<"f","u","n","c">>, type |-> "FUNC"],
      [literal |-> <<"r","e","t","u","r","n">>, type |-> "RETURN"],
      [literal |-> <<"i","f">>, type |-> "IF"],
      [literal |-> <<"e","l","s","e">>, type |-> "ELSE"],
      [literal |-> <<"f","o","r">>, type |-> "FOR"],
      [literal |-> <<"v","a","r">>, type |-> "VAR"],
      [literal |-> <<"i","n","t">>, type |-> "INT_TYPE"],
      [literal |-> <<"s","t","r","i","n","g">>, type |-> "STRING_TYPE"],
      [literal |-> <<"b","o","o","l">>, type |-> "BOOL_TYPE"],
      [literal |-> <<"t","r","u","e">>, type |-> "TRUE"],
      [literal |-> <<"f","a","l","s","e">>, type |-> "FALSE"],
      [literal |-> <<"p","a","c","k","a","g","e">>, type |-> "PACKAGE"] }

lookupIdent(ident) ==
    IF \E k \in KEYWORDS : k.literal = ident
    THEN (CHOOSE k \in KEYWORDS : k.literal = ident).type
    ELSE "IDENT"

\* `lastToken: Token | null = null`
NullToken == [type |-> "null", literal |-> <<>>, line |-> 0, column |-> 0]

\* no error thrown; the text of an error message is a sequence of its parts,
\* `name` is the name of the error's class
NoError == [name |-> "none", message |-> <<>>, line |-> 0, column |-> 0]

\* input.slice(from, to), both 0-based, `to` exclusive
slice(input, from, to) ==
    IF to <= from THEN <<>>
    ELSE SubSeq(input, from + 1, IF to > Len(input) THEN Len(input) ELSE to)

\* input.charAt(readPosition), or "" past the end
peekChar(L) ==
    IF L.readPosition >= Len(L.input) THEN "" ELSE L.input[L.readPosition + 1]

-----------------------------------------------------------------------------
(* The auto-semicolon Lexer: src/unnamed/part_011 *)

Semi_readChar(L) ==
    LET c == peekChar(L)
    IN [L EXCEPT !.ch = c,
                 !.position = L.readPosition,
                 !.readPosition = L.readPosition + 1,
                 !.line = IF c = "\n" THEN @ + 1 ELSE @,
                 !.column = IF c = "\n" THEN 1 ELSE @ + 1]

Semi_Lexer(input) ==
    Semi_readChar([kind |-> "semi", input |-> input, position |-> 0,
                   readPosition |-> 0, ch |-> "", line |-> 1, column |-> 1,
                   lastToken |-> NullToken])

Semi_createToken(L, type, literal) ==
    [type |-> type, literal |-> literal, line |-> L.line,
     column |-> L.column - Len(literal)]

needsSemicolon_AfterSemicolon(L) ==
    /\ L.lastToken # NullToken
    /\ L.lastToken.type \in {"IDENT", "STRING", "INT", ")", "}", ";"}

needsSemicolon_DropsInt(L) ==
    /\ L.lastToken # NullToken
    /\ L.lastToken.type \in {"IDENT", "STRING", ")", "}"}

needsSemicolon(L) ==
    /\ L.lastToken # NullToken
    /\ L.lastToken.type \in {"IDENT", "STRING", "INT", ")", "}"}

RECURSIVE Semi_skipWhitespace(_)
Semi_skipWhitespace(L) ==
    IF isWhitespace(L.ch)
    THEN IF L.ch = "\n" /\ needsSemicolon(L)
         THEN [lexer |-> Semi_readChar(L),
               token |-> Semi_createToken(L, ";", <<";">>)]
         ELSE Semi_skipWhitespace(Semi_readChar(L))
    ELSE [lexer |-> L, token |-> NullToken]

RECURSIVE Semi_readWhile(_, _)
Semi_readWhile(L, class) ==
    IF L.ch \in class THEN Semi_readWhile(Semi_readChar(L), class) ELSE L

\* readIdentifier / readNumber: the lexer after the run, and the run's text
Semi_readIdentifier(L) ==
    LET L2 == Semi_readWhile(L, Letters)
    IN [lexer |-> L2, text |-> slice(L.input, L.position, L2.position)]

Semi_readNumber(L) ==
    LET L2 == Semi_readWhile(L, Digits)
    IN [lexer |-> L2, text |-> slice(L.input, L.position, L2.position)]

\* the while loop of readString
RECURSIVE Semi_readStringLoop(_)
Semi_readStringLoop(L) ==
    IF L.ch # "\"" /\ L.ch # ""
    THEN Semi_readStringLoop(
             Semi_readChar(IF L.ch = "\\" THEN Semi_readChar(L) ELSE L))
    ELSE L

Semi_readString(L) ==
    LET position == L.position + 1
        L2 == Semi_readStringLoop(Semi_readChar(L))
    IN IF L2.ch # "\""
       THEN [lexer |-> L2, text |-> <<>>,
             error |-> [name |-> "Error",
                        message |-> <<"Unterminated string literal">>,
                        line |-> L2.line, column |-> L2.column]]
       ELSE [lexer |-> Semi_readChar(L2),
             text |-> slice(L.input, position, L2.position),
             error |-> NoError]

Semi_SingleChar == {"(", ")", "{", "}", "+"}

\* nextToken: the lexer after the call, the token returned, the error thrown
Semi_nextToken(L) ==
    LET ws == Semi_skipWhitespace(L)
        L1 == ws.lexer
        done(L2, tok) ==
            [lexer |-> [L2 EXCEPT !.lastToken = tok], token |-> tok, error |-> NoError]
    IN IF ws.token # NullToken THEN done(L1, ws.token)
       ELSE IF L1.ch = ""
       THEN IF needsSemicolon(L1)
            THEN done(L1, Semi_createToken(L1, ";", <<";">>))
            ELSE done(L1, Semi_createToken(L1, "EOF", <<>>))
       ELSE IF L1.ch = "\""
       THEN LET s == Semi_readString(L1)
            IN IF s.error # NoError
               THEN [lexer |-> s.lexer, token |-> NullToken, error |-> s.error]
               ELSE done(s.lexer, Semi_createToken(s.lexer, "STRING", s.text))
       ELSE IF L1.ch \in Semi_SingleChar
       THEN done(Semi_readChar(L1), Semi_createToken(L1, L1.ch, <<L1.ch>>))
       ELSE IF isDigit(L1.ch)
       THEN LET n == Semi_readNumber(L1)
            IN done(n.lexer, Semi_createToken(n.lexer, "INT", n.text))
       ELSE IF isLetter(L1.ch)
       THEN LET id == Semi_readIdentifier(L1)
            IN done(id.lexer, Semi_createToken(id.lexer, lookupIdent(id.text), id.text))
       ELSE done(Semi_readChar(L1), Semi_createToken(L1, "ILLEGAL", <<L1.ch>>))

-----------------------------------------------------------------------------
(* The comment-aware Lexer: src/src/lexer/lexer.ts *)

\* the mutant goes on counting columns after a newline
readChar_ColumnNotReset(L) ==
    LET c == peekChar(L)
    IN [L EXCEPT !.ch = c,
                 !.position = L.readPosition,
                 !.readPosition = L.readPosition + 1,
                 !.line = IF c = "\n" THEN @ + 1 ELSE @,
                 !.column = @ + 1]

readChar(L) ==
    LET c == peekChar(L)
    IN [L EXCEPT !.ch = c,
                 !.position = L.readPosition,
                 !.readPosition = L.readPosition + 1,
                 !.line = IF c = "\n" THEN @ + 1 ELSE @,
                 !.column = IF c = "\n" THEN 0 ELSE @ + 1]

Lexer(input) ==
    readChar([kind |-> "comment", input |-> input, position |-> 0,
              readPosition |-> 0, ch |-> "", line |-> 1, column |-> 0,
              lastToken |-> NullToken])

RECURSIVE skipWhitespace(_)
skipWhitespace(L) ==
    IF isWhitespace(L.ch) THEN skipWhitespace(readChar(L)) ELSE L

RECURSIVE skipSingleLineComment(_)
skipSingleLineComment(L) ==
    IF L.ch # "\n" /\ L.ch # "" THEN skipSingleLineComment(readChar(L)) ELSE L

\* the mutant takes a "*" for the end of the comment, whatever follows it
RECURSIVE skipMultiLineLoop_AnyStar(_)
skipMultiLineLoop_AnyStar(L) ==
    IF L.ch = "" THEN [lexer |-> L, closed |-> FALSE]
    ELSE IF L.ch = "*"
    THEN [lexer |-> readChar(readChar(L)), closed |-> TRUE]
    ELSE skipMultiLineLoop_AnyStar(readChar(L))

\* the `while (true)` loop of skipMultiLineComment
RECURSIVE skipMultiLineLoop(_)
skipMultiLineLoop(L) ==
    IF L.ch = "" THEN [lexer |-> L, closed |-> FALSE]
    ELSE IF L.ch = "*" /\ peekChar(L) = "/"
    THEN [lexer |-> readChar(readChar(L)), closed |-> TRUE]
    ELSE skipMultiLineLoop(readChar(L))

skipMultiLineComment(L) == skipMultiLineLoop(readChar(readChar(L)))

RECURSIVE readWhile(_, _)
readWhile(L, class) ==
    IF L.ch \in class THEN readWhile(readChar(L), class) ELSE L

readIdentifier(L) ==
    LET L2 == readWhile(L, Letters)
    IN [lexer |-> L2, text |-> slice(L.input, L.position, L2.position)]

readNumber(L) ==
    LET L2 == readWhile(L, Digits)
    IN [lexer |-> L2, text |-> slice(L.input, L.position, L2.position)]

RECURSIVE readStringLoop(_)
readStringLoop(L) ==
    IF L.ch # "\"" /\ L.ch # "" /\ L.ch # "\n"
    THEN readStringLoop(readChar(L))
    ELSE L

readString(L) ==
    LET position == L.position + 1
        L2 == readStringLoop(readChar(L))
        str == slice(L.input, position, L2.position)
    IN IF L2.ch = "\""
       THEN [lexer |-> readChar(L2), text |-> str]
       ELSE [lexer |-> L2, text |-> str]

\* the mutant does not look ahead after "!"
TwoCharFirst_NoBang == {"=", "<", ">"}

\* the characters that start a two-character operator when "=" follows
TwoCharFirst == {"=", "!", "<", ">"}

TwoCharType(c) ==
    CASE c = "=" -> "==" [] c = "!" -> "!=" [] c = "<" -> "<=" [] c = ">" -> ">="

\* the single-character cases of the switch whose token type is the character
SingleChar == {"+", "-", "*", ";", ":", "(", ")", ",", "{", "}"}

\* the text of the ILLEGAL token returned for an unclosed block comment
UnterminatedComment == <<"Unterminated multi-line comment">>

RECURSIVE nextToken(_)
nextToken(L) ==
    LET L1 == skipWhitespace(L)
        tok(type, literal) ==
            [type |-> type, literal |-> literal, line |-> L1.line, column |-> L1.column]
    IN IF L1.ch \in TwoCharFirst
       THEN IF peekChar(L1) = "="
            THEN [lexer |-> readChar(readChar(L1)),
                  token |-> tok(TwoCharType(L1.ch), <<L1.ch, "=">>)]
            ELSE [lexer |-> readChar(L1), token |-> tok(L1.ch, <<L1.ch>>)]
       ELSE IF L1.ch = "/"
       THEN IF peekChar(L1) = "/"
            THEN nextToken(skipSingleLineComment(L1))
            ELSE IF peekChar(L1) = "*"
            THEN LET c == skipMultiLineComment(L1)
                 IN IF ~c.closed
                    THEN [lexer |-> c.lexer, token |-> tok("ILLEGAL", UnterminatedComment)]
                    ELSE nextToken(c.lexer)
            ELSE [lexer |-> readChar(L1), token |-> tok("/", <<"/">>)]
       ELSE IF L1.ch = "\""
       THEN LET s == readString(L1)
            IN [lexer |-> s.lexer, token |-> tok("STRING", s.text)]
       ELSE IF L1.ch \in SingleChar
       THEN [lexer |-> readChar(L1), token |-> tok(L1.ch, <<L1.ch>>)]
       ELSE IF L1.ch = ""
       THEN [lexer |-> readChar(L1), token |-> tok("EOF", <<>>)]
       ELSE IF isLetter(L1.ch)
       THEN LET id == readIdentifier(L1)
            IN [lexer |-> id.lexer, token |-> tok(lookupIdent(id.text), id.text)]
       ELSE IF isDigit(L1.ch)
       THEN LET n == readNumber(L1)
            IN [lexer |-> n.lexer, token |-> tok("INT", n.text)]
       ELSE [lexer |-> readChar(L1), token |-> tok("ILLEGAL", <<L1.ch>>)]

-----------------------------------------------------------------------------
(* The lexer specification: a Lexer is constructed on a source text and     *)
(* nextToken is called repeatedly, as scan() and the Parser do.             *)

\* no node built
NoNode == [type |-> "none"]

NoGiven == [family |-> "none", parts |-> <<>>]

\* no LLVMGenerator has been constructed
NoGenerator ==
    /\ generator = [type |-> "none"]
    /\ irTexts = <<>>
    /\ genError = [name |-> "none", message |-> <<>>, line |-> 0, column |-> 0]

\* no ErrorCollector has been constructed
NoCollector ==
    /\ collector = [type |-> "none"]
    /\ heap = <<>>
    /\ calls = <<>>

\* CompilerPipeline.compile has not been called
NoCompile ==
    /\ disk = {}
    /\ compile = [type |-> "none"]

\* the parts of the state the lexers do not use
LexerOnly ==
    /\ NoGenerator
    /\ NoCollector
    /\ NoCompile
    /\ given = NoGiven
    /\ tokens = <<>>
    /\ pos = 0
    /\ currentToken = NullToken
    /\ peekToken = NullToken
    /\ pc = "lexing"
    /\ program = NoNode
    /\ parseError = NoError
    /\ scopeStack = <<>>
    /\ declIndex = 0
    /\ inferred = "none"
    /\ semanticError = [kind |-> "none", message |-> <<>>,
                        location |-> [line |-> 0, column |-> 0]]

CountEOF(toks) == Cardinality({i \in 1..Len(toks) : toks[i].type = "EOF"})

CountNonEOF(toks) == Len(toks) - CountEOF(toks)

\* the caller still calls nextToken
MayCall ==
    /\ lexError = NoError
    /\ CountEOF(scanned) < MaxEOFCalls
    /\ CountNonEOF(scanned) <= Len(lexer.input) + 1

\* longer texts: a token after a block comment that spans a line break, after
\* a line comment, and multi-character tokens on a second line
LongerTexts ==
    { <<"/", "*", "\n", "*", "/", " ", "a", "a">>,
      <<"a", "/", "/", "a", "\n", " ", "=", "=", "1", "1">>,
      <<"\n", " ", "\"", "a", "\"", "a", ";">>,
      <<"a", "a", "\n", "1", "1", "\n", "\"", "a", "\"">>,
      <<"a", "(", "1", ")", "\n", "}">> }

\* the operator and delimiter characters of the switch of nextToken, and a space
OperatorAlphabet ==
    {"=", "!", "<", ">", "+", "-", "*", "/", "(", ")", "{", "}", ",", ";", " "}

\* the texts of operators and delimiters: the short ones, and the two of the tests
OperatorTexts ==
    UNION {[1..n -> OperatorAlphabet] : n \in 1..MaxOperators}
       \cup { <<"=", "+", "(", ")", "{", "}", ",", ";">>,
              <<"+", " ", "/", " ", "=", "=", " ", "!", "=", " ", "<", " ", ">", "=">> }

LexInit ==
    /\ \/ \E input \in TextsOver(SemiAlphabet) : lexer = Semi_Lexer(input)
       \/ \E input \in TextsOver(CommentAlphabet) : lexer = Lexer(input)
       \/ \E input \in LongerTexts : lexer = Semi_Lexer(input) \/ lexer = Lexer(input)
       \/ \E input \in OperatorTexts : lexer = Lexer(input)
    /\ scanned = <<>>
    /\ lexError = NoError
    /\ LexerOnly

\* one call of nextToken on the auto-semicolon Lexer
SemiNextToken ==
    /\ lexer.kind = "semi"
    /\ MayCall
    /\ LET r == Semi_nextToken(lexer)
       IN /\ lexer' = r.lexer
          /\ lexError' = r.error
          /\ scanned' = IF r.error = NoError THEN Append(scanned, r.token) ELSE scanned
    /\ UNCHANGED <<parserVars, analyzerVars, genVars, collectorVars, toolVars>>

\* one call of nextToken on the comment-aware Lexer
CommentNextToken ==
    /\ lexer.kind = "comment"
    /\ MayCall
    /\ LET r == nextToken(lexer)
       IN /\ lexer' = r.lexer
          /\ lexError' = NoError
          /\ scanned' = Append(scanned, r.token)
    /\ UNCHANGED <<parserVars, analyzerVars, genVars, collectorVars, toolVars>>

LexNext == SemiNextToken \/ CommentNextToken

LexSpec == LexInit /\ [][LexNext]_vars

-----------------------------------------------------------------------------
(* Claims about the lexers *)

LastOf(seq) == seq[Len(seq)]

\* once EOF was returned, every later token is EOF, and EOF has the literal ""
EOFIsFinal ==
    \A i \in 1..Len(scanned) :
        scanned[i].type = "EOF" =>
            /\ scanned[i].literal = <<>>
            /\ \A j \in i..Len(scanned) : scanned[j].type = "EOF"

\* every token but one synthesized at the end of input consumes a character
FinitelyManyTokens == CountNonEOF(scanned) <= Len(lexer.input) + 1

\* the only error is the string-literal error of the auto-semicolon Lexer
OnlyStringErrors ==
    lexError # NoError =>
        lexer.kind = "semi" /\ lexError.message = <<"Unterminated string literal">>

\* after at most Len(input) + 2 calls scan() has returned (the last token is
\* EOF) or nextToken has thrown
ScanEnds ==
    Len(scanned) >= Len(lexer.input) + 2 => LastOf(scanned).type = "EOF"

\* C2: repeated calls of nextToken return finitely many non-EOF tokens and then
\* EOF (literal ""), and EOF again on every later call, so that scan() ends with
\* a list whose last and only EOF is its last element; the auto-semicolon Lexer
\* may instead throw its string-literal error.
C2_EOFTerminatesScan ==
    /\ EOFIsFinal
    /\ FinitelyManyTokens
    /\ OnlyStringErrors
    /\ ScanEnds

C2_Witness ==
    /\ lexer.kind = "semi"
    /\ CountEOF(scanned) = MaxEOFCalls
    /\ CountNonEOF(scanned) >= 3
    /\ \E i \in 1..Len(scanned) : scanned[i].type = ";"

\* the first character at or after the lexer's position that is no space, tab
\* or carriage return; "" at the end of input
NextSignificant(L) ==
    LET rest == {i \in (L.position + 1)..Len(L.input) :
                    L.input[i] \notin {" ", "\t", "\r"}}
    IN IF rest = {} THEN ""
       ELSE L.input[CHOOSE i \in rest : \A j \in rest : i <= j]

PreviousToken == IF scanned = <<>> THEN NullToken ELSE LastOf(scanned)

StatementEnders == {"IDENT", "STRING", "INT", ")", "}"}

\* C3: a call of the auto-semicolon Lexer's nextToken returns SEMICOLON (";")
\* exactly when the previously returned token is an IDENT, STRING, INT, ")" or
\* "}" and the next character after spaces, tabs and carriage returns is a
\* newline or the end of input; hence never twice in a row, never first.
C3_AutoSemicolon ==
    [][(lexer.kind = "semi" /\ Len(scanned') = Len(scanned) + 1) =>
         LET returned == LastOf(scanned')
         IN /\ returned.type = ";" <=>
                 /\ PreviousToken.type \in StatementEnders
                 /\ NextSignificant(lexer) \in {"\n", ""}
            /\ returned.type = ";" => returned.literal = <<";">>
      ]_lexVars

\* a statement ender, blank lines, the synthesized semicolon, then the next line
C3_Witness ==
    /\ lexer.kind = "semi"
    /\ Len(scanned) >= 3
    /\ scanned[1].type = "INT"
    /\ scanned[2].type = ";"
    /\ scanned[3].type = "IDENT"
    /\ scanned[3].line = 3

\* the escape characters of the language and the character each denotes
EscapeChars == {"n", "t", "r", "\"", "\\", "0"}

\* the NUL character is written "0" here: no escape-free source character of
\* the alphabets is "0"
Unescape(c) ==
    CASE c = "n" -> "\n" [] c = "t" -> "\t" [] c = "r" -> "\r"
      [] c = "\"" -> "\"" [] c = "\\" -> "\\" [] c = "0" -> "0"

\* the value of the string literal whose content starts at input[i]
RECURSIVE StringValue(_, _, _)
StringValue(input, i, acc) ==
    IF i > Len(input) \/ input[i] = "\n" THEN [ok |-> FALSE, value |-> <<>>]
    ELSE IF input[i] = "\"" THEN [ok |-> TRUE, value |-> acc]
    ELSE IF input[i] = "\\"
    THEN IF i + 1 <= Len(input) /\ input[i + 1] \in EscapeChars
         THEN StringValue(input, i + 2, Append(acc, Unescape(input[i + 1])))
         ELSE [ok |-> FALSE, value |-> <<>>]
    ELSE StringValue(input, i + 1, Append(acc, input[i]))

FirstCallMade == scanned # <<>> \/ lexError # NoError

\* C4: on a source text that starts with a string literal, nextToken returns a
\* STRING token holding the decoded content when the literal is closed and all
\* its escapes are valid, and fails with an error in every other case.
C4_StringsDecodedOrRejected ==
    (lexer.input # <<>> /\ lexer.input[1] = "\"" /\ FirstCallMade) =>
        LET v == StringValue(lexer.input, 2, <<>>)
        IN IF v.ok
           THEN /\ lexError = NoError
                /\ scanned[1].type = "STRING"
                /\ scanned[1].literal = v.value
           ELSE lexError # NoError /\ scanned = <<>>

-----------------------------------------------------------------------------
(* The Parser: src/unnamed/part_005.  The operators below take the token    *)
(* stream and the index of currentToken; peekToken is the token after it.   *)
(* Each returns [ok, node, pos, error]: the node built and the index of     *)
(* currentToken afterwards, or the error thrown.                            *)

\* the token the lexer returns at index i: EOF from the end of the stream on
TokAt(toks, i) ==
    IF i <= Len(toks) THEN toks[i]
    ELSE [type |-> "EOF", literal |-> <<>>, line |-> 1, column |-> Len(toks) + 1]

\* `returnType: TypeNode | null = null`
NullNode == [type |-> "null"]

Ok(node, p) == [ok |-> TRUE, node |-> node, pos |-> p, error |-> NoError]

currentLocation(toks, p) ==
    [line |-> TokAt(toks, p).line, column |-> TokAt(toks, p).column]

\* throw new Error(`Parser error at line L, column C: message`)
throwError(toks, p, message) ==
    [ok |-> FALSE, node |-> NoNode, pos |-> p,
     error |-> [name |-> "Error", message |-> <<"Parser error">> \o message,
                line |-> TokAt(toks, p).line, column |-> TokAt(toks, p).column]]

\* run `next` on what r returned, unless r threw
Then(r, next(_)) == IF r.ok THEN next(r) ELSE r

expectToken(toks, p, type) ==
    IF TokAt(toks, p).type # type
    THEN throwError(toks, p, <<"Expected", type, "got", TokAt(toks, p).type>>)
    ELSE Ok(TokAt(toks, p), p + 1)

RECURSIVE consumeSemicolons(_, _)
consumeSemicolons(toks, p) ==
    IF TokAt(toks, p).type = ";" THEN consumeSemicolons(toks, p + 1) ELSE p

TypeKeywords == {"INT_TYPE", "STRING_TYPE", "BOOL_TYPE"}

parseType(toks, p) ==
    IF TokAt(toks, p).type \in TypeKeywords
    THEN Ok([type |-> "TypeNode",
             typeType |-> CASE TokAt(toks, p).type = "INT_TYPE" -> "int"
                            [] TokAt(toks, p).type = "STRING_TYPE" -> "string"
                            [] TokAt(toks, p).type = "BOOL_TYPE" -> "bool",
             location |-> currentLocation(toks, p)], p + 1)
    ELSE throwError(toks, p, <<"Expected type, got", TokAt(toks, p).type>>)

parseParameter(toks, p) ==
    Then(expectToken(toks, p, "IDENT"), LAMBDA name :
    Then(parseType(toks, name.pos), LAMBDA paramType :
    Ok([name |-> name.node.literal, type |-> paramType.node,
        location |-> currentLocation(toks, p)], paramType.pos)))

\* the loop `while (currentToken.type === COMMA)` of parseFunctionParameters
RECURSIVE parseMoreParameters(_, _, _)
parseMoreParameters(toks, p, parameters) ==
    IF TokAt(toks, p).type = ","
    THEN Then(parseParameter(toks, p + 1), LAMBDA param :
         parseMoreParameters(toks, param.pos, Append(parameters, param.node)))
    ELSE Ok(parameters, p)

parseFunctionParameters(toks, p) ==
    IF TokAt(toks, p).type = ")" THEN Ok(<<>>, p)
    ELSE Then(parseParameter(toks, p), LAMBDA param :
         parseMoreParameters(toks, param.pos, <<param.node>>))

\* the numeric value of a decimal literal: parseInt(literal, 10)
RECURSIVE parseInt(_)
parseInt(literal) ==
    IF literal = <<>> THEN 0
    ELSE 10 * parseInt(SubSeq(literal, 1, Len(literal) - 1))
         + (CHOOSE d \in 0..9 :
               <<"0","1","2","3","4","5","6","7","8","9">>[d + 1] = literal[Len(literal)])

\* the literal the parser looks for to recognise a call
NamePrint == <<"p", "r", "i", "n", "t">>

InfixExpression(operator, left, right, location) ==
    [type |-> "InfixExpression", operator |-> operator, left |-> left,
     right |-> right, location |-> location]

\* The expression methods call one another recursively; parseRule holds their
\* bodies, one per method name, and `left` is what a loop has built so far.
RECURSIVE parseRule(_, _, _, _)
parseRule(rule, toks, p, left) ==
    CASE rule = "parseExpression" ->
           IF TokAt(toks, p).literal = NamePrint
           THEN parseRule("parseCallExpression", toks, p, NoNode)
           ELSE parseRule("parseAdditive", toks, p, NoNode)
      [] rule = "parseAdditive" ->
           Then(parseRule("parseMultiplicative", toks, p, NoNode), LAMBDA first :
           parseRule("parseAdditive loop", toks, first.pos, first.node))
      [] rule = "parseAdditive loop" ->
           \* while (currentToken.type === PLUS || currentToken.type === MINUS)
           IF TokAt(toks, p).type \in {"+", "-"}
           THEN Then(parseRule("parseMultiplicative", toks, p + 1, NoNode), LAMBDA right :
                parseRule("parseAdditive loop", toks, right.pos,
                          InfixExpression(TokAt(toks, p).literal, left, right.node,
                                          currentLocation(toks, right.pos))))
           ELSE Ok(left, p)
      [] rule = "parseMultiplicative" ->
           Then(parseRule("parsePrimary", toks, p, NoNode), LAMBDA first :
           parseRule("parseMultiplicative loop", toks, first.pos, first.node))
      [] rule = "parseMultiplicative loop" ->
           \* while (currentToken.type === ASTERISK || currentToken.type === SLASH)
           IF TokAt(toks, p).type \in {"*", "/"}
           THEN Then(parseRule("parsePrimary", toks, p + 1, NoNode), LAMBDA right :
                parseRule("parseMultiplicative loop", toks, right.pos,
                          InfixExpression(TokAt(toks, p).literal, left, right.node,
                                          currentLocation(toks, right.pos))))
           ELSE Ok(left, p)
      [] rule = "parsePrimary" ->
           CASE TokAt(toks, p).type = "(" ->
                  Then(parseRule("parseExpression", toks, p + 1, NoNode), LAMBDA expr :
                  Then(expectToken(toks, expr.pos, ")"), LAMBDA rparen :
                  Ok(expr.node, rparen.pos)))
             [] TokAt(toks, p).type = "INT" ->
                  Ok([type |-> "IntegerLiteral",
                      value |-> parseInt(TokAt(toks, p).literal),
                      location |-> currentLocation(toks, p)], p + 1)
             [] TokAt(toks, p).type = "STRING" ->
                  Ok([type |-> "StringLiteral", value |-> TokAt(toks, p).literal,
                      location |-> currentLocation(toks, p)], p + 1)
             [] TokAt(toks, p).type \in {"TRUE", "FALSE"} ->
                  Ok([type |-> "BooleanLiteral",
                      value |-> (TokAt(toks, p).type = "TRUE"),
                      location |-> currentLocation(toks, p)], p + 1)
             [] TokAt(toks, p).type = "IDENT" ->
                  IF TokAt(toks, p).literal = NamePrint
                  THEN parseRule("parseCallExpression", toks, p, NoNode)
                  ELSE Ok([type |-> "Identifier", value |-> TokAt(toks, p).literal,
                           location |-> currentLocation(toks, p)], p + 1)
             [] OTHER ->
                  throwError(toks, p, <<"Unexpected token", TokAt(toks, p).type>>)
      [] rule = "parseCallExpression" ->
           \* func is the Identifier made of the current token, whatever its type
           Then(expectToken(toks, p + 1, "("), LAMBDA lparen :
           Then(IF TokAt(toks, lparen.pos).type # ")"
                THEN Then(parseRule("parseExpression", toks, lparen.pos, NoNode),
                          LAMBDA arg :
                          parseRule("parseCallExpression loop", toks, arg.pos,
                                    <<arg.node>>))
                ELSE Ok(<<>>, lparen.pos), LAMBDA args :
           Then(expectToken(toks, args.pos, ")"), LAMBDA rparen :
           Ok([type |-> "CallExpression",
               function |-> [type |-> "Identifier",
                             value |-> TokAt(toks, p).literal,
                             location |-> currentLocation(toks, p)],
               arguments |-> args.node,
               location |-> currentLocation(toks, p)], rparen.pos))))
      [] rule = "parseCallExpression loop" ->
           \* while (currentToken.type === COMMA); `left` holds args
           IF TokAt(toks, p).type = ","
           THEN Then(parseRule("parseExpression", toks, p + 1, NoNode), LAMBDA arg :
                parseRule("parseCallExpression loop", toks, arg.pos,
                          Append(left, arg.node)))
           ELSE Ok(left, p)

parseExpression(toks, p) == parseRule("parseExpression", toks, p, NoNode)

parseAdditive(toks, p) == parseRule("parseAdditive", toks, p, NoNode)

parseMultiplicative(toks, p) == parseRule("parseMultiplicative", toks, p, NoNode)

parsePrimary(toks, p) == parseRule("parsePrimary", toks, p, NoNode)

parseCallExpression(toks, p) == parseRule("parseCallExpression", toks, p, NoNode)

parseReturnStatement(toks, p) ==
    Then(parseExpression(toks, p + 1), LAMBDA returnValue :
    Ok([type |-> "ReturnStatement", returnValue |-> returnValue.node,
        location |-> currentLocation(toks, p)],
       IF TokAt(toks, returnValue.pos).type = ";"
       THEN returnValue.pos + 1 ELSE returnValue.pos))

parseExpressionStatement(toks, p) ==
    Then(parseExpression(toks, p), LAMBDA expression :
    Ok([type |-> "ExpressionStatement", expression |-> expression.node,
        location |-> currentLocation(toks, expression.pos)], expression.pos))

parseStatement(toks, p) ==
    CASE TokAt(toks, p).type = "IDENT" -> parseExpressionStatement(toks, p)
      [] TokAt(toks, p).type = "RETURN" -> parseReturnStatement(toks, p)
      [] OTHER -> throwError(toks, p, <<"Unexpected token", TokAt(toks, p).type>>)

\* the loop `while (currentToken.type !== RBRACE && ... !== EOF)`
RECURSIVE parseStatements(_, _, _)
parseStatements(toks, p, statements) ==
    IF TokAt(toks, p).type \notin {"}", "EOF"}
    THEN Then(parseStatement(toks, p), LAMBDA stmt :
         parseStatements(toks, consumeSemicolons(toks, stmt.pos),
                         Append(statements, stmt.node)))
    ELSE Ok(statements, p)

parseBlockStatement(toks, p) ==
    Then(parseStatements(toks, p, <<>>), LAMBDA statements :
    Then(expectToken(toks, statements.pos, "}"), LAMBDA rbrace :
    Ok([type |-> "BlockStatement", statements |-> statements.node,
        location |-> currentLocation(toks, p)], rbrace.pos)))

parseFunctionDeclaration(toks, p) ==
    Then(expectToken(toks, p + 1, "IDENT"), LAMBDA name :
    Then(expectToken(toks, name.pos, "("), LAMBDA lparen :
    Then(parseFunctionParameters(toks, lparen.pos), LAMBDA parameters :
    Then(expectToken(toks, parameters.pos, ")"), LAMBDA rparen :
    Then(IF TokAt(toks, rparen.pos).type \in TypeKeywords
         THEN parseType(toks, rparen.pos)
         ELSE Ok(NullNode, rparen.pos), LAMBDA returnType :
    Then(expectToken(toks, returnType.pos, "{"), LAMBDA lbrace :
    Then(parseBlockStatement(toks, lbrace.pos), LAMBDA body :
    Ok([type |-> "FunctionDeclaration", name |-> name.node.literal,
        parameters |-> parameters.node, returnType |-> returnType.node,
        body |-> body.node, location |-> currentLocation(toks, p)],
       body.pos))))))))

\* parseProgram up to the declaration loop: the package clause
parsePackageClause(toks, p) ==
    Then(expectToken(toks, p, "PACKAGE"), LAMBDA package :
    Then(expectToken(toks, package.pos, "IDENT"), LAMBDA packageName :
    Ok([type |-> "Program", package |-> packageName.node.literal,
        declarations |-> <<>>,
        location |-> currentLocation(toks,
                         consumeSemicolons(toks, packageName.pos))],
       consumeSemicolons(toks, packageName.pos))))

\* one pass through the body of `while (currentToken.type !== EOF)`
parseDeclarationStep(toks, p, prog) ==
    IF TokAt(toks, p).type = "FUNC"
    THEN Then(parseFunctionDeclaration(toks, p), LAMBDA decl :
         Ok([prog EXCEPT !.declarations = Append(@, decl.node)],
            consumeSemicolons(toks, decl.pos)))
    ELSE Ok(prog, consumeSemicolons(toks, p))

-----------------------------------------------------------------------------
(* Token streams given to the Parser.  A token is written without its      *)
(* position; Positioned puts the tokens of a stream on line 1, one column  *)
(* each.                                                                    *)

MaxDecls == 2

Tok(type, literal) == [type |-> type, literal |-> literal]

NameMain == <<"m", "a", "i", "n">>
NameFoo == <<"f", "o", "o">>
NameX == <<"x">>

Ident(name) == Tok("IDENT", name)
Punct(c) == Tok(c, <<c>>)
tPACKAGE == Tok("PACKAGE", <<"p","a","c","k","a","g","e">>)
tFUNC == Tok("FUNC", <<"f","u","n","c">>)
tRETURN == Tok("RETURN", <<"r","e","t","u","r","n">>)
tINT_TYPE == Tok("INT_TYPE", <<"i","n","t">>)
tTRUE == Tok("TRUE", <<"t","r","u","e">>)
tFALSE == Tok("FALSE", <<"f","a","l","s","e">>)

Positioned(protos) ==
    [i \in 1..Len(protos) |->
        [type |-> protos[i].type, literal |-> protos[i].literal,
         line |-> 1, column |-> i]]

RECURSIVE Flatten(_)
Flatten(parts) == IF parts = <<>> THEN <<>> ELSE Head(parts) \o Flatten(Tail(parts))

SeqsUpTo(S, n) == UNION {[1..k -> S] : k \in 0..n}

\* package clauses, well-formed and not
PackageClauses ==
    { <<tPACKAGE, Ident(NameMain)>>, <<tPACKAGE, Ident(NameFoo)>>,
      <<tPACKAGE, Ident(NamePrint)>>,
      <<tPACKAGE, Ident(NameMain), Punct(";")>>, <<tPACKAGE>>, <<Ident(NameMain)>> }

CallPrintX == <<Ident(NamePrint), Punct("("), Tok("STRING", <<"x">>), Punct(")")>>

Signatures ==
    { <<Punct("("), Punct(")")>>,
      <<Punct("("), Ident(NameX), tINT_TYPE, Punct(","), Ident(NameX), tINT_TYPE,
        Punct(")"), tINT_TYPE>> }

Bodies ==
    { <<Punct("{")>> \o CallPrintX \o <<Punct(";"), Punct("}")>>,
      <<Punct("{"), Ident(NamePrint), Punct("("), tTRUE, Punct(")"), Punct("}")>> }

\* what may follow the package clause: function declarations, semicolons, a
\* statement or a block outside any function, a declaration cut short
TopLevelChunks ==
    { <<tFUNC, Ident(name)>> \o sig \o body :
          name \in {NameMain, NameFoo}, sig \in Signatures, body \in Bodies }
    \cup { <<Punct(";")>>, CallPrintX,
           <<tFUNC, Ident(NameFoo), Punct("("), Ident(NameX), tINT_TYPE, Punct(")"),
             Punct("{"), Punct("}")>>,
           <<Punct("{")>> \o CallPrintX \o <<Punct("}")>>,
           <<tFUNC, Ident(NameMain), Punct("("), Punct(")")>> \o CallPrintX }

\* operands of an expression
Operands ==
    { <<Tok("INT", <<"1">>)>>, <<Tok("INT", <<"4", "2">>)>>, <<Ident(NameX)>>,
      <<Tok("STRING", <<"s">>)>>, <<Tok("STRING", NamePrint)>>, <<tTRUE>>,
      <<Ident(NamePrint), Punct("("), Tok("INT", <<"1">>), Punct(")")>>,
      <<Punct("("), Tok("INT", <<"1">>), Punct("+"), Tok("INT", <<"2">>), Punct(")")>>,
      <<Punct("("), Ident(NameX), Punct("*"), Tok("INT", <<"2">>), Punct("-"),
        Tok("INT", <<"1">>), Punct(")")>> }

BinaryOperators == {<<Punct("+")>>, <<Punct("-")>>, <<Punct("*")>>, <<Punct("/")>>}

\* primaries: every kind of primary token, alone and followed by `(`
Primaries ==
    { <<Tok("INT", <<"7">>)>>, <<Tok("STRING", <<"s">>)>>, <<Tok("STRING", NamePrint)>>,
      <<Tok("STRING", <<>>)>>, <<tTRUE>>, <<tFALSE>>, <<Ident(NameX)>>,
      <<Ident(NamePrint)>>,
      <<Ident(NamePrint), Punct("("), Punct(")")>>,
      <<Ident(NamePrint), Punct("("), Tok("INT", <<"1">>), Punct(")")>>,
      <<Ident(NamePrint), Punct("("), Tok("INT", <<"1">>), Punct(","), tTRUE, Punct(")")>>,
      <<Ident(NameFoo), Punct("("), Punct(")")>>,
      <<Ident(NameFoo), Punct("("), Tok("INT", <<"1">>), Punct(")")>>,
      <<Tok("STRING", NamePrint), Punct("("), Tok("INT", <<"1">>), Punct(")")>>,
      <<Tok("INT", <<"7">>), Punct("("), Punct(")")>> }

\* `package main func main() { return` ... `}` around an expression
ExpressionPrelude ==
    <<tPACKAGE, Ident(NameMain), tFUNC, Ident(NameMain), Punct("("), Punct(")"),
      Punct("{"), tRETURN>>

ExpressionPostlude == <<Punct("}")>>

\* the token streams of a family
Givens(family) ==
    CASE family = "program" ->
           { [family |-> family, parts |-> <<clause>> \o chunks] :
                 clause \in PackageClauses,
                 chunks \in SeqsUpTo(TopLevelChunks, MaxDecls) }
      [] family = "infix" ->
           { [family |-> family, parts |-> <<a, op1, b, op2, c>>] :
                 a \in Operands, op1 \in BinaryOperators, b \in Operands,
                 op2 \in BinaryOperators, c \in Operands }
      [] family = "primary" ->
           { [family |-> family, parts |-> <<primary>>] : primary \in Primaries }

TokensOf(g) ==
    Positioned(IF g.family = "program" THEN Flatten(g.parts)
               ELSE ExpressionPrelude \o Flatten(g.parts) \o ExpressionPostlude)

-----------------------------------------------------------------------------
(* The compiler front end as main.ts runs it: new Parser(lexer),           *)
(* parser.parseProgram(), then new SemanticAnalyzer().analyze(ast).        *)

\* new Parser(lexer): the constructor reads the first two tokens
Parser(g) ==
    /\ given = g
    /\ tokens = TokensOf(g)
    /\ pos = 1
    /\ currentToken = TokAt(TokensOf(g), 1)
    /\ peekToken = TokAt(TokensOf(g), 2)
    /\ pc = "parseProgram"
    /\ program = NoNode
    /\ parseError = NoError

\* the parser's state after an operator that returned r
Advance(r) ==
    /\ pos' = r.pos
    /\ currentToken' = TokAt(tokens, r.pos)
    /\ peekToken' = TokAt(tokens, r.pos + 1)
    /\ parseError' = r.error

\* parseProgram from its entry to the declaration loop
ParsePackageClause ==
    /\ pc = "parseProgram"
    /\ LET r == parsePackageClause(tokens, pos)
       IN /\ Advance(r)
          /\ program' = IF r.ok THEN r.node ELSE program
          /\ pc' = IF r.ok THEN "declarations" ELSE "thrown"
    /\ UNCHANGED <<given, tokens, lexer, scanned, lexError, analyzerVars, genVars,
                   collectorVars, toolVars>>

\* one pass through the declaration loop of parseProgram
ParseDeclaration ==
    /\ pc = "declarations"
    /\ currentToken.type # "EOF"
    /\ LET r == parseDeclarationStep(tokens, pos, program)
       IN /\ Advance(r)
          /\ program' = IF r.ok THEN r.node ELSE program
          /\ pc' = IF r.ok THEN "declarations" ELSE "thrown"
    /\ UNCHANGED <<given, tokens, lexer, scanned, lexError, analyzerVars, genVars,
                   collectorVars, toolVars>>

\* the declaration loop ends at EOF and parseProgram returns the Program
ReturnProgram ==
    /\ pc = "declarations"
    /\ currentToken.type = "EOF"
    /\ pc' = "parsed"
    /\ UNCHANGED <<given, tokens, pos, currentToken, peekToken, program, parseError,
                   lexer, scanned, lexError, analyzerVars, genVars, collectorVars, toolVars>>

-----------------------------------------------------------------------------
(* The SemanticAnalyzer: src/src/semantic/analyzer.ts, lines 403-607.      *)
(* The checking operators return [ok, type, error]: the type inferred, or  *)
(* the error thrown.                                                        *)

NoLocation == [line |-> 0, column |-> 0]

NoSemanticError == [kind |-> "none", message |-> <<>>, location |-> NoLocation]

Returns(t) == [ok |-> TRUE, type |-> t, error |-> NoSemanticError]

Throws(kind, message, location) ==
    [ok |-> FALSE, type |-> "none",
     error |-> [kind |-> kind, message |-> message, location |-> location]]

\* new Map<string, Type>(), as the set of its entries
EmptyScope == {}

pushScope(stack) == Append(stack, EmptyScope)

popScope(stack) == SubSeq(stack, 1, Len(stack) - 1)

\* the loop of resolve, from scope i down to the outermost
RECURSIVE resolveFrom(_, _, _)
resolveFrom(name, stack, i) ==
    IF i = 0
    THEN Throws("Error", <<"Undefined variable", name>>, NoLocation)
    ELSE IF \E entry \in stack[i] : entry.name = name
         THEN Returns((CHOOSE entry \in stack[i] : entry.name = name).type)
         ELSE resolveFrom(name, stack, i - 1)

resolve(name, stack) == resolveFrom(name, stack, Len(stack))

builtinFunctions ==
    [name \in {NamePrint} |-> [parameters |-> {"string", "int"}, returnType |-> "void"]]

NameToString == <<"t", "o", "S", "t", "r", "i", "n", "g">>
NameConstructor == <<"c", "o", "n", "s", "t", "r", "u", "c", "t", "o", "r">>

\* builtinFunctions is an object literal: indexing it by a name also finds what
\* it inherits from Object.prototype, none of which has `parameters`
InheritedProperties == {NameToString, NameConstructor}

ArithmeticOperators == {<<"+">>, <<"-">>, <<"*">>, <<"/">>}

\* the mutant accepts an arithmetic expression whose left operand is int
checkInfixExpression_LeftOnly(expr, leftType, rightType) ==
    IF ~leftType.ok THEN leftType
    ELSE IF ~rightType.ok THEN rightType
    ELSE IF expr.operator \in ArithmeticOperators
    THEN IF leftType.type # "int"
         THEN Throws("SemanticError",
                     <<"Cannot perform arithmetic operation", expr.operator,
                       "on types", leftType.type, rightType.type>>, expr.location)
         ELSE Returns("int")
    ELSE Throws("SemanticError",
                <<"Operator not yet supported", expr.operator>>, expr.location)

\* leftType and rightType are what inferType(expr.left) and inferType(expr.right)
\* returned or threw, in that order
checkInfixExpression(expr, leftType, rightType) ==
    IF ~leftType.ok THEN leftType
    ELSE IF ~rightType.ok THEN rightType
    ELSE IF expr.operator \in ArithmeticOperators
    THEN IF leftType.type # "int" \/ rightType.type # "int"
         THEN Throws("SemanticError",
                     <<"Cannot perform arithmetic operation", expr.operator,
                       "on types", leftType.type, rightType.type>>, expr.location)
         ELSE Returns("int")
    ELSE Throws("SemanticError",
                <<"Operator not yet supported", expr.operator>>, expr.location)

\* argType is what inferType(expr.arguments[0]) returned or threw; `if (!arg)`
\* after the count check never holds, arguments[0] being a node
checkCallExpression(expr, argType) ==
    LET funcName == expr.function.value
    IN IF funcName \notin DOMAIN builtinFunctions /\ funcName \notin InheritedProperties
       THEN Throws("SemanticError", <<"Undefined function", funcName>>, expr.location)
       ELSE IF Len(expr.arguments) # 1
       THEN Throws("SemanticError",
                   <<"Function", funcName, "expects 1 argument, but got",
                     ToString(Len(expr.arguments))>>, expr.location)
       ELSE IF ~argType.ok THEN argType
       ELSE IF funcName \notin DOMAIN builtinFunctions
       THEN Throws("TypeError",
                   <<"Cannot read properties of undefined (reading 'includes')">>,
                   NoLocation)
       ELSE IF argType.type \notin builtinFunctions[funcName].parameters
       THEN Throws("SemanticError",
                   <<"Cannot print value of type", argType.type>>,
                   expr.arguments[1].location)
       ELSE Returns(builtinFunctions[funcName].returnType)

RECURSIVE inferType(_, _)
inferType(expr, stack) ==
    CASE expr.type = "StringLiteral" -> Returns("string")
      [] expr.type = "IntegerLiteral" -> Returns("int")
      [] expr.type = "BooleanLiteral" -> Returns("bool")
      [] expr.type = "Identifier" -> resolve(expr.value, stack)
      [] expr.type = "CallExpression" ->
           checkCallExpression(expr,
               IF Len(expr.arguments) = 1 THEN inferType(expr.arguments[1], stack)
               ELSE Returns("none"))
      [] expr.type = "InfixExpression" ->
           checkInfixExpression(expr, inferType(expr.left, stack),
                                inferType(expr.right, stack))
      [] OTHER -> Throws("SemanticError",
                         <<"Expression type not yet supported", expr.type>>,
                         expr.location)

\* returns the type inferred for an expression statement, "none" for any other
analyzeStatement(stmt, stack) ==
    IF stmt.type = "ExpressionStatement"
    THEN inferType(stmt.expression, stack)
    ELSE Returns("none")

\* the loop over func.body.statements, from statement i on
RECURSIVE analyzeStatements(_, _, _, _)
analyzeStatements(statements, i, stack, last) ==
    IF i > Len(statements) THEN Returns(last)
    ELSE LET r == analyzeStatement(statements[i], stack)
         IN IF ~r.ok THEN r
            ELSE analyzeStatements(statements, i + 1, stack,
                                   IF r.type = "none" THEN last ELSE r.type)

\* the mutant checks the parameters of main only
analyzeFunctionDeclaration_NoReturnTypeCheck(func, stack) ==
    LET pushed == pushScope(stack)
    IN IF func.name = NameMain /\ Len(func.parameters) > 0
       THEN [stack |-> pushed,
             result |-> Throws("SemanticError",
                               <<"main function cannot have parameters">>, func.location)]
       ELSE LET r == analyzeStatements(func.body.statements, 1, pushed, "none")
            IN [stack |-> IF r.ok THEN popScope(pushed) ELSE pushed, result |-> r]

\* the mutant binds the parameters in the function's scope
analyzeFunctionDeclaration_BindsParameters(func, stack) ==
    LET pushed == Append(stack, {[name |-> func.parameters[i].name, type |-> "int"] :
                                    i \in DOMAIN func.parameters})
    IN IF func.name = NameMain /\ Len(func.parameters) > 0
       THEN [stack |-> pushed,
             result |-> Throws("SemanticError",
                               <<"main function cannot have parameters">>, func.location)]
       ELSE IF func.name = NameMain /\ func.returnType # NullNode
       THEN [stack |-> pushed,
             result |-> Throws("SemanticError",
                               <<"main function cannot have explicit return type">>,
                               func.location)]
       ELSE LET r == analyzeStatements(func.body.statements, 1, pushed, "none")
            IN [stack |-> IF r.ok THEN popScope(pushed) ELSE pushed, result |-> r]

\* returns the scope stack left behind and what the body's analysis returned
analyzeFunctionDeclaration(func, stack) ==
    LET pushed == pushScope(stack)
    IN IF func.name = NameMain /\ Len(func.parameters) > 0
       THEN [stack |-> pushed,
             result |-> Throws("SemanticError",
                               <<"main function cannot have parameters">>, func.location)]
       ELSE IF func.name = NameMain /\ func.returnType # NullNode
       THEN [stack |-> pushed,
             result |-> Throws("SemanticError",
                               <<"main function cannot have explicit return type">>,
                               func.location)]
       ELSE LET r == analyzeStatements(func.body.statements, 1, pushed, "none")
            IN [stack |-> IF r.ok THEN popScope(pushed) ELSE pushed, result |-> r]

\* the mutant accepts the package `foo` as well
validatePackage_AcceptsFoo(prog) ==
    IF prog.package # NameMain /\ prog.package # NameFoo
    THEN Throws("SemanticError", <<"Package must be \"main\"">>,
                [line |-> 1, column |-> 1])
    ELSE Returns("none")

\* the package validation of analyze
validatePackage(prog) ==
    IF prog.package # NameMain
    THEN Throws("SemanticError", <<"Package must be \"main\"">>,
                [line |-> 1, column |-> 1])
    ELSE Returns("none")

\* new SemanticAnalyzer()
SemanticAnalyzer ==
    /\ scopeStack = <<>>
    /\ declIndex = 0
    /\ inferred = "none"
    /\ semanticError = NoSemanticError

\* analyze from its entry to the declaration loop
AnalyzePackage ==
    /\ pc = "parsed"
    /\ LET r == validatePackage(program)
       IN /\ scopeStack' = pushScope(scopeStack)
          /\ semanticError' = r.error
          /\ pc' = IF r.ok THEN "analyzing" ELSE "rejected"
          /\ declIndex' = IF r.ok THEN 1 ELSE declIndex
    /\ UNCHANGED <<inferred, given, tokens, pos, currentToken, peekToken, program,
                   parseError, lexer, scanned, lexError, genVars, collectorVars, toolVars>>

\* one pass through the declaration loop of analyze
AnalyzeDeclaration ==
    /\ pc = "analyzing"
    /\ declIndex <= Len(program.declarations)
    /\ LET decl == program.declarations[declIndex]
       IN IF decl.type # "FunctionDeclaration"
          THEN /\ semanticError' =
                      Throws("SemanticError",
                             <<"Unsupported declaration type", decl.type>>,
                             decl.location).error
               /\ pc' = "rejected"
               /\ UNCHANGED <<scopeStack, declIndex, inferred>>
          ELSE LET r == analyzeFunctionDeclaration(decl, scopeStack)
               IN /\ scopeStack' = r.stack
                  /\ semanticError' = r.result.error
                  /\ inferred' = r.result.type
                  /\ pc' = IF r.result.ok THEN "analyzing" ELSE "rejected"
                  /\ declIndex' = IF r.result.ok THEN declIndex + 1 ELSE declIndex
    /\ UNCHANGED <<given, tokens, pos, currentToken, peekToken, program,
                   parseError, lexer, scanned, lexError, genVars, collectorVars, toolVars>>

\* the declaration loop is through and analyze returns
AnalyzeReturn ==
    /\ pc = "analyzing"
    /\ declIndex > Len(program.declarations)
    /\ scopeStack' = popScope(scopeStack)
    /\ pc' = "analyzed"
    /\ UNCHANGED <<declIndex, inferred, semanticError, given, tokens, pos,
                   currentToken, peekToken, program, parseError, lexer, scanned,
                   lexError, genVars, collectorVars, toolVars>>

\* the Parser reads from a lexer that the token stream stands for
TokenSource ==
    /\ lexer = [kind |-> "tokens"]
    /\ scanned = <<>>
    /\ lexError = NoError

CompileInit ==
    /\ \E family \in {"program", "infix", "primary"} :
          \E g \in Givens(family) : Parser(g)
    /\ TokenSource
    /\ SemanticAnalyzer
    /\ NoGenerator
    /\ NoCollector
    /\ NoCompile

CompileNext ==
    \/ ParsePackageClause
    \/ ParseDeclaration
    \/ ReturnProgram
    \/ AnalyzePackage
    \/ AnalyzeDeclaration
    \/ AnalyzeReturn

CompileSpec == CompileInit /\ [][CompileNext]_vars

-----------------------------------------------------------------------------
(* Programs given to analyze directly, as the analyzer's callers may build *)
(* them: every node is on line 1, at a column that tells its kind.         *)

MaxDepth == 2

At(c) == [line |-> 1, column |-> c]

LeafInt == [type |-> "IntegerLiteral", value |-> 1, location |-> At(1)]
LeafString == [type |-> "StringLiteral", value |-> <<"s">>, location |-> At(2)]
LeafBool == [type |-> "BooleanLiteral", value |-> TRUE, location |-> At(3)]
LeafIdent == [type |-> "Identifier", value |-> NameX, location |-> At(4)]

Call(name, args) ==
    [type |-> "CallExpression",
     function |-> [type |-> "Identifier", value |-> name, location |-> At(5)],
     arguments |-> args, location |-> At(5)]

Infix(operator, left, right) == InfixExpression(operator, left, right, At(6))

\* operands of the types int, string, bool and void
TypedLeaves == {LeafInt, LeafString, LeafBool, Call(NamePrint, <<LeafInt>>)}

InfixOperators == ArithmeticOperators \cup {<<"%">>}

\* the infix expressions nested d deep
RECURSIVE InfixOfDepth(_)
InfixOfDepth(d) ==
    IF d = 1
    THEN { Infix(op, l, r) : op \in InfixOperators, l \in TypedLeaves, r \in TypedLeaves }
    ELSE { IF nested = "left" THEN Infix(op, e, l) ELSE Infix(op, l, e) :
               op \in InfixOperators, e \in InfixOfDepth(d - 1),
               l \in {LeafInt, LeafString}, nested \in {"left", "right"} }

Arguments ==
    TypedLeaves \cup {LeafIdent, Infix(<<"+">>, LeafInt, LeafInt),
                      Infix(<<"+">>, LeafString, LeafInt)}

CallExpressions ==
    { Call(name, args) : name \in {NamePrint, NameFoo, NameToString, NameConstructor},
                         args \in SeqsUpTo(Arguments, 2) }

\* the expressions that are not nested infix expressions of typed operands
OtherExpressions ==
    TypedLeaves \cup {LeafIdent} \cup CallExpressions
    \cup { Infix(<<"+">>, LeafIdent, LeafInt), Infix(<<"%">>, LeafInt, LeafIdent) }

ExpressionStatement(expr) ==
    [type |-> "ExpressionStatement", expression |-> expr, location |-> At(7)]

FunctionDeclaration(name, parameters, returnType, statements) ==
    [type |-> "FunctionDeclaration", name |-> name, parameters |-> parameters,
     returnType |-> returnType,
     body |-> [type |-> "BlockStatement", statements |-> statements,
               location |-> At(8)],
     location |-> At(9)]

ProgramOf(package, declarations) ==
    [type |-> "Program", package |-> package, declarations |-> declarations,
     location |-> At(1)]

IntTypeNode == [type |-> "TypeNode", typeType |-> "int", location |-> At(10)]

FunctionDeclarations ==
    { FunctionDeclaration(name, parameters, returnType, statements) :
          name \in {NameMain, NameFoo},
          parameters \in {<<>>, <<[name |-> NameX, type |-> IntTypeNode,
                                  location |-> At(11)]>>},
          returnType \in {NullNode, IntTypeNode},
          statements \in { <<[type |-> "ReturnStatement", returnValue |-> LeafBool,
                              location |-> At(12)],
                             ExpressionStatement(Call(NamePrint, <<LeafString>>))>>,
                           <<ExpressionStatement(Call(NamePrint, <<LeafBool>>))>> } }

ReturnStatement(expr) ==
    [type |-> "ReturnStatement", returnValue |-> expr, location |-> At(12)]

\* statements of a function body: a variable used in an expression statement
\* and in a return statement, an ill-typed expression in both
BodyStatements ==
    { ExpressionStatement(LeafIdent),
      ExpressionStatement(Call(NamePrint, <<LeafIdent>>)),
      ExpressionStatement(Infix(<<"+">>, LeafIdent, LeafInt)),
      ExpressionStatement(Infix(<<"+">>, LeafString, LeafInt)),
      ExpressionStatement(Call(NamePrint, <<LeafInt>>)),
      ReturnStatement(LeafIdent),
      ReturnStatement(Infix(<<"+">>, LeafString, LeafInt)),
      ReturnStatement(Call(NameFoo, <<>>)),
      ReturnStatement(LeafInt) }

\* `func foo(x int) int { ... }` and `func foo() int { ... }`
BodyDeclarations ==
    { FunctionDeclaration(NameFoo, parameters, IntTypeNode, statements) :
          parameters \in {<<>>, <<[name |-> NameX, type |-> IntTypeNode,
                                  location |-> At(11)]>>},
          statements \in SeqsUpTo(BodyStatements, 2) \ {<<>>} }

\* the program whose function main has the one statement `expr`
ProgramOfExpression(expr) ==
    ProgramOf(NameMain, <<FunctionDeclaration(NameMain, <<>>, NullNode,
                                              <<ExpressionStatement(expr)>>)>>)

\* a Program in hand and no Parser
ProgramGiven(family, prog) ==
    /\ given = [family |-> family, parts |-> <<>>]
    /\ tokens = <<>>
    /\ pos = 0
    /\ currentToken = NullToken
    /\ peekToken = NullToken
    /\ pc = "parsed"
    /\ program = prog
    /\ parseError = NoError

AnalyzerInit ==
    /\ \/ \E expr \in OtherExpressions :
             ProgramGiven("expression", ProgramOfExpression(expr))
       \/ \E d \in 1..MaxDepth : \E expr \in InfixOfDepth(d) :
             ProgramGiven("expression", ProgramOfExpression(expr))
       \/ \E package \in {NameMain, NameFoo} :
             \E declarations \in SeqsUpTo(FunctionDeclarations, MaxDecls) :
                ProgramGiven("declarations", ProgramOf(package, declarations))
       \/ \E declaration \in BodyDeclarations :
             ProgramGiven("body", ProgramOf(NameMain, <<declaration>>))
    /\ TokenSource
    /\ SemanticAnalyzer
    /\ NoGenerator
    /\ NoCollector
    /\ NoCompile

AnalyzerNext == AnalyzePackage \/ AnalyzeDeclaration \/ AnalyzeReturn

AnalyzerSpec == AnalyzerInit /\ [][AnalyzerNext]_vars

-----------------------------------------------------------------------------
(* The LLVMGenerator: src/src/codegen/generator.ts, lines 12-242.  The     *)
(* operators take the generator object G = [output, varCounter,            *)
(* stringCounter] and return it as the method leaves it.  A line of the    *)
(* output buffer is a sequence of pieces of text, a string value is a      *)
(* sequence of characters, and a line break inside a line is the piece     *)
(* "\n".                                                                    *)

\* this.output.push(line)
push(G, line) == [G EXCEPT !.output = Append(@, line)]

DeclareLine == <<"declare i32 @printf(i8* nocapture readonly, ...)", "\n">>

StrFmtLine ==
    <<"@.str.fmt = private unnamed_addr constant [3 x i8] c\"%s\\00\", align 1", "\n">>

emitModuleHeader(G) == push(push(G, DeclareLine), StrFmtLine)

\* new LLVMGenerator()
LLVMGenerator ==
    emitModuleHeader([output |-> <<>>, varCounter |-> 0, stringCounter |-> 0])

nextVar(G) ==
    [gen |-> [G EXCEPT !.varCounter = @ + 1],
     name |-> <<"%", ToString(G.varCounter + 1)>>]

nextStringConst(G) ==
    [gen |-> [G EXCEPT !.stringCounter = @ + 1],
     name |-> <<"@.str.", ToString(G.stringCounter)>>]

\* what one pass of the loop of processStringLiteral appends for the
\* character at i: its text, the length it adds and the characters it consumes
processChar(str, i) ==
    IF str[i] = "\\" /\ i < Len(str)
    THEN LET nextChar == str[i + 1]
         IN CASE nextChar = "n" -> [text |-> <<"\\", "0", "A">>, length |-> 1, chars |-> 2]
              [] nextChar = "r" -> [text |-> <<"\\", "0", "D">>, length |-> 1, chars |-> 2]
              [] nextChar = "t" -> [text |-> <<"\\", "0", "9">>, length |-> 1, chars |-> 2]
              [] nextChar = "\"" -> [text |-> <<"\\", "\"">>, length |-> 1, chars |-> 2]
              [] nextChar = "\\" -> [text |-> <<"\\", "\\">>, length |-> 1, chars |-> 2]
              [] OTHER -> [text |-> <<"\\", nextChar>>, length |-> 2, chars |-> 2]
    ELSE [text |-> <<str[i]>>, length |-> 1, chars |-> 1]

\* the loop of processStringLiteral, from the character at i on
RECURSIVE processFrom(_, _, _, _)
processFrom(str, i, processed, length) ==
    IF i > Len(str)
    THEN [processed |-> processed, length |-> length]
    ELSE processFrom(str, i + processChar(str, i).chars,
                     processed \o processChar(str, i).text,
                     length + processChar(str, i).length)

processStringLiteral(str) == processFrom(str, 1, <<>>, 0)

StringConstantLine(globalId, length, processed) ==
    globalId \o <<" = private unnamed_addr constant [", ToString(length + 1),
                  " x i8] c\"">> \o processed \o <<"\\00\", align 1", "\n">>

emitStringLiteral(G, value) ==
    [gen |-> push(nextStringConst(G).gen,
                  StringConstantLine(nextStringConst(G).name,
                                     processStringLiteral(value).length,
                                     processStringLiteral(value).processed)),
     name |-> nextStringConst(G).name]

\* statements.forEach((stmt) => this.output.push("  " + stmt)) between the
\* opening and the closing lines
emitMainFunction(G, statements) ==
    [G EXCEPT !.output =
        @ \o << <<"define i32 @main() {", "\n">>, <<"entry:", "\n">> >>
          \o [i \in 1..Len(statements) |-> <<"  ">> \o statements[i]]
          \o << <<"  ret i32 0", "\n">>, <<"}", "\n">> >>]

\* throw new Error(message) inside the generator
GenThrows(G, message) ==
    [gen |-> G, ok |-> FALSE, value |-> <<>>,
     error |-> [name |-> "Error", message |-> message, line |-> 0, column |-> 0]]

GenReturns(G, value) == [gen |-> G, ok |-> TRUE, value |-> value, error |-> NoError]

\* the InfixExpression case once both operands are lowered
emitInfix(expr, left, right) ==
    IF expr.operator = <<"+">>
    THEN GenReturns(push(nextVar(right.gen).gen,
                         <<"  ">> \o nextVar(right.gen).name \o <<" = add i32 ">>
                           \o left.value \o <<", ">> \o right.value),
                    nextVar(right.gen).name)
    ELSE GenThrows(nextVar(right.gen).gen, <<"Unsupported operator", expr.operator>>)

\* when the first step threw, the throw; otherwise what `next` makes of it
GenThen(r, next(_)) == IF r.ok THEN next(r) ELSE r

RECURSIVE emitIntegerExpression(_, _)
emitIntegerExpression(G, expr) ==
    CASE expr.type = "IntegerLiteral" -> GenReturns(G, <<ToString(expr.value)>>)
      [] expr.type = "InfixExpression" ->
           GenThen(emitIntegerExpression(G, expr.left),
               LAMBDA left :
                   GenThen(emitIntegerExpression(left.gen, expr.right),
                       LAMBDA right : emitInfix(expr, left, right)))
      [] OTHER -> GenThrows(G, <<"Unsupported expression type", expr.type>>)

IntFmtLine ==
    <<"@.str.int.fmt = private unnamed_addr constant [4 x i8] c\"%d\\0A\\00\", align 1">>

\* the output buffer with the integer format line, put in front of every
\* other line (unshift) when no line of the buffer is that line yet
withIntFmt(G) ==
    IF \E i \in DOMAIN G.output : G.output[i] = IntFmtLine
    THEN G
    ELSE [G EXCEPT !.output = <<IntFmtLine>> \o @]

\* the StringLiteral branch of emitPrint; strVar is what emitStringLiteral
\* returned and the three temporaries are taken in this order
emitPrintString(expr, strVar, fmtPtr, strPtr, callResult) ==
    GenReturns(callResult.gen,
        << fmtPtr.name \o <<" = getelementptr [3 x i8], [3 x i8]* @.str.fmt, i64 0, i64 0">>,
           strPtr.name \o <<" = getelementptr [", ToString(Len(expr.value) + 1),
                            " x i8], [", ToString(Len(expr.value) + 1), " x i8]* ">>
                       \o strVar.name \o <<", i64 0, i64 0">>,
           callResult.name \o <<" = call i32 (i8*, ...) @printf(i8* ">> \o fmtPtr.name
                           \o <<", i8* ">> \o strPtr.name \o <<")">> >>)

\* the integer branch of emitPrint once the expression is lowered
emitPrintInteger(intResult) ==
    GenReturns(withIntFmt(nextVar(intResult.gen).gen),
        << nextVar(intResult.gen).name
           \o <<" = call i32 (i8*, ...) @printf(i8* getelementptr inbounds ([4 x i8], [4 x i8]* ",
                "@.str.int.fmt", ", i64 0, i64 0), i32 ">>
           \o intResult.value \o <<")">> >>)

\* returns the instruction lines of the print in `value`
emitPrint(G, expr) ==
    IF expr.type = "StringLiteral"
    THEN emitPrintString(expr, emitStringLiteral(G, expr.value),
             nextVar(emitStringLiteral(G, expr.value).gen),
             nextVar(nextVar(emitStringLiteral(G, expr.value).gen).gen),
             nextVar(nextVar(nextVar(emitStringLiteral(G, expr.value).gen).gen).gen))
    ELSE GenThen(emitIntegerExpression(G, expr), LAMBDA intResult : emitPrintInteger(intResult))

\* this.output.join("\n")
RECURSIVE join(_)
join(lines) ==
    IF lines = <<>> THEN <<>>
    ELSE IF Len(lines) = 1 THEN lines[1]
    ELSE lines[1] \o <<"\n">> \o join(Tail(lines))

\* ast.declarations[0], undefined when there is none
firstDecl(ast) ==
    IF Len(ast.declarations) >= 1 THEN ast.declarations[1] ELSE NoNode

\* funcDecl.body.statements[0] of a first declaration that is a function
firstStmt(ast) ==
    IF firstDecl(ast).type = "FunctionDeclaration"
       /\ Len(firstDecl(ast).body.statements) >= 1
    THEN firstDecl(ast).body.statements[1]
    ELSE NoNode

\* the conditions under which generate calls emitPrint
printsFirst(ast) ==
    /\ firstStmt(ast).type = "ExpressionStatement"
    /\ firstStmt(ast).expression.type = "CallExpression"
    /\ firstStmt(ast).expression.function.value = NamePrint
    /\ Len(firstStmt(ast).expression.arguments) > 0

\* returns the text of the IR in `value`
generate(G, ast) ==
    GenThen(IF printsFirst(ast)
            THEN emitPrint(G, firstStmt(ast).expression.arguments[1])
            ELSE GenReturns(G, <<>>),
        LAMBDA statements :
            GenReturns(emitMainFunction(statements.gen, statements.value),
                       join(emitMainFunction(statements.gen, statements.value).output)))

-----------------------------------------------------------------------------
(* Programs given to generate: type-checked programs whose function main   *)
(* prints strings, integer literals and arithmetic expressions.  A string  *)
(* value is as the auto-semicolon Lexer's readString leaves it: a sequence *)
(* of plain characters and of backslash pairs, kept undecoded.             *)

MaxUnits == 2

MaxNesting == 2

MaxStatements == 2

MaxGenerateCalls == 2

StringUnits ==
    { <<"a">>, <<"\\", "n">>, <<"\\", "t">>, <<"\\", "\"">>, <<"\\", "\\">>,
      <<"\\", "q">> }

StringValues == { Flatten(units) : units \in SeqsUpTo(StringUnits, MaxUnits) }

StringLiteral(value) == [type |-> "StringLiteral", value |-> value, location |-> At(2)]

IntegerLiteral(value) == [type |-> "IntegerLiteral", value |-> value, location |-> At(1)]

IntegerLiterals == {IntegerLiteral(4), IntegerLiteral(30)}

\* the arithmetic expressions nested d deep, on one side
RECURSIVE ArithmeticOfDepth(_)
ArithmeticOfDepth(d) ==
    IF d = 1
    THEN { Infix(op, l, r) : op \in ArithmeticOperators,
                             l \in IntegerLiterals, r \in IntegerLiterals }
    ELSE { IF nested = "left" THEN Infix(op, e, l) ELSE Infix(op, l, e) :
               op \in ArithmeticOperators, e \in ArithmeticOfDepth(d - 1),
               l \in {IntegerLiteral(4)}, nested \in {"left", "right"} }

\* the arguments of the print statements of programs with several statements
FewArguments ==
    { StringLiteral(<<"a">>), StringLiteral(<<"\\", "n">>), IntegerLiteral(4),
      Infix(<<"+">>, IntegerLiteral(4), IntegerLiteral(30)),
      Infix(<<"+">>, IntegerLiteral(4),
            Infix(<<"+">>, IntegerLiteral(30), IntegerLiteral(4))),
      Infix(<<"-">>, IntegerLiteral(30),
            Infix(<<"*">>, IntegerLiteral(4), IntegerLiteral(4))) }

PrintStatement(arg) == ExpressionStatement(Call(NamePrint, <<arg>>))

MainOf(statements) ==
    ProgramOf(NameMain, <<FunctionDeclaration(NameMain, <<>>, NullNode, statements)>>)

\* `func foo() { ... }`: a function with another name than main
FooOf(statements) == FunctionDeclaration(NameFoo, <<>>, NullNode, statements)

\* the bodies of the functions of programs with two functions
FewBodies ==
    { <<>>, <<PrintStatement(StringLiteral(<<"a">>))>>,
      <<PrintStatement(IntegerLiteral(4))>>,
      <<PrintStatement(IntegerLiteral(30)), PrintStatement(StringLiteral(<<"a">>))>> }

\* programs in which main is declared before or after a function foo
TwoFunctions ==
    { ProgramOf(NameMain, declarations) :
        declarations \in
          UNION { { <<FooOf(foo), FunctionDeclaration(NameMain, <<>>, NullNode, main)>>,
                    <<FunctionDeclaration(NameMain, <<>>, NullNode, main), FooOf(foo)>> } :
                  foo \in FewBodies, main \in FewBodies } }

\* new LLVMGenerator() and a type-checked Program in hand
GenerateGiven(prog) ==
    /\ given = [family |-> "generate", parts |-> <<>>]
    /\ tokens = <<>>
    /\ pos = 0
    /\ currentToken = NullToken
    /\ peekToken = NullToken
    /\ pc = "checked"
    /\ program = prog
    /\ parseError = NoError
    /\ generator = LLVMGenerator
    /\ irTexts = <<>>
    /\ genError = NoError

GenInit ==
    /\ \/ \E value \in StringValues : GenerateGiven(MainOf(<<PrintStatement(StringLiteral(value))>>))
       \/ \E arg \in IntegerLiterals : GenerateGiven(MainOf(<<PrintStatement(arg)>>))
       \/ \E d \in 1..MaxNesting : \E arg \in ArithmeticOfDepth(d) :
             GenerateGiven(MainOf(<<PrintStatement(arg)>>))
       \/ \E n \in 2..MaxStatements : \E args \in [1..n -> FewArguments] :
             GenerateGiven(MainOf([i \in 1..n |-> PrintStatement(args[i])]))
       \/ GenerateGiven(MainOf(<<>>))
       \/ GenerateGiven(ProgramOf(NameMain, <<>>))
       \/ \E prog \in TwoFunctions : GenerateGiven(prog)
    /\ TokenSource
    /\ SemanticAnalyzer
    /\ NoCollector
    /\ NoCompile

\* one call generator.generate(program), on the generator as the calls before
\* left it
Generate ==
    /\ pc \in {"checked", "generated"}
    /\ Len(irTexts) < MaxGenerateCalls
    /\ LET r == generate(generator, program)
       IN /\ generator' = r.gen
          /\ genError' = r.error
          /\ irTexts' = IF r.ok THEN Append(irTexts, r.value) ELSE irTexts
          /\ pc' = IF r.ok THEN "generated" ELSE "generate threw"
    /\ UNCHANGED <<given, tokens, pos, currentToken, peekToken, program, parseError,
                   lexVars, analyzerVars, collectorVars, toolVars>>

GenNext == Generate

GenSpec == GenInit /\ [][GenNext]_vars

-----------------------------------------------------------------------------
(* The build command: main.ts, lines 89-98.  The Parser is constructed on  *)
(* the Lexer and calls lexer.nextToken() each time it advances, so the     *)
(* lexer has returned one token more than the index of currentToken.       *)

\* one call of lexer.nextToken(), on either Lexer
callNextToken(L) ==
    IF L.kind = "semi" THEN Semi_nextToken(L)
    ELSE [lexer |-> nextToken(L).lexer, token |-> nextToken(L).token,
          error |-> NoError]

\* n calls of lexer.nextToken(), up to the first that throws
RECURSIVE Pull(_, _, _)
Pull(L, n, acc) ==
    IF n = 0 THEN [lexer |-> L, tokens |-> acc, error |-> NoError]
    ELSE LET r == callNextToken(L)
         IN IF r.error # NoError
            THEN [lexer |-> r.lexer, tokens |-> acc, error |-> r.error]
            ELSE Pull(r.lexer, n - 1, Append(acc, r.token))

\* number of nextToken calls looked at beyond one call for each character
MaxCallsAtEnd == 4

\* the tokens a new lexer returns, to the end of the input and a few calls
\* beyond, or to the call that throws
Ahead(L) == Pull(L, Len(L.input) + MaxCallsAtEnd, <<>>).tokens

\* the state after a method of the Parser that returned r: the method has
\* called lexer.nextToken() until peekToken was the token after r.pos; when
\* one of these calls threw, the lexer's error leaves the method. `returned`
\* is where the Parser is when the method has returned. (`tokens` are the
\* tokens the lexer returns when it is called; `scanned` are those it has
\* returned.)
Pulled(r, returned) ==
    IF r.pos + 1 > Len(tokens)
    THEN /\ lexError' = Pull(lexer, Len(tokens) + 1 - Len(scanned), <<>>).error
         /\ lexer' = Pull(lexer, Len(tokens) + 1 - Len(scanned), <<>>).lexer
         /\ scanned' = tokens
         /\ pc' = "lexer threw"
         /\ UNCHANGED <<pos, currentToken, peekToken, program, parseError>>
    ELSE /\ lexer' = Pull(lexer, r.pos + 1 - Len(scanned), <<>>).lexer
         /\ scanned' = SubSeq(tokens, 1, r.pos + 1)
         /\ pos' = r.pos
         /\ currentToken' = tokens[r.pos]
         /\ peekToken' = tokens[r.pos + 1]
         /\ parseError' = r.error
         /\ program' = IF r.ok THEN r.node ELSE program
         /\ pc' = IF r.ok THEN returned ELSE "thrown"
         /\ UNCHANGED lexError

\* new Lexer(source); new Parser(lexer): the constructor calls nextToken twice
NewParser ==
    /\ pc = "source"
    /\ Pulled(Ok(NoNode, 1), "parseProgram")
    /\ UNCHANGED <<given, tokens, analyzerVars, genVars, collectorVars, toolVars>>

\* parseProgram from its entry to the declaration loop, on the Lexer
PackageClauseFromLexer ==
    /\ pc = "parseProgram"
    /\ Pulled(parsePackageClause(tokens, pos), "declarations")
    /\ UNCHANGED <<given, tokens, analyzerVars, genVars, collectorVars, toolVars>>

\* one pass through the declaration loop of parseProgram, on the Lexer
DeclarationFromLexer ==
    /\ pc = "declarations"
    /\ currentToken.type # "EOF"
    /\ Pulled(parseDeclarationStep(tokens, pos, program), "declarations")
    /\ UNCHANGED <<given, tokens, analyzerVars, genVars, collectorVars, toolVars>>

\* new LLVMGenerator(); generator.generate(ast)
GenerateIR ==
    /\ pc = "analyzed"
    /\ LET r == generate(LLVMGenerator, program)
       IN /\ generator' = r.gen
          /\ genError' = r.error
          /\ irTexts' = IF r.ok THEN <<r.value>> ELSE <<>>
          /\ pc' = IF r.ok THEN "generated" ELSE "generate threw"
    /\ UNCHANGED <<given, tokens, pos, currentToken, peekToken, program, parseError,
                   lexVars, analyzerVars, collectorVars, toolVars>>

\* a source text: words with a space between them
RECURSIVE Spell(_)
Spell(words) ==
    IF words = <<>> THEN <<>>
    ELSE IF Len(words) = 1 THEN Head(words)
    ELSE Head(words) \o <<" ">> \o Spell(Tail(words))

SourceClauses ==
    { <<tPACKAGE.literal, NameMain>>, <<tPACKAGE.literal, NameFoo>>,
      <<NameMain>>, <<tPACKAGE.literal, <<"(">> >> }

SourceDeclarations ==
    { <<tFUNC.literal, NameMain, <<"(">>, <<")">>, <<"{">>,
        NamePrint, <<"(">>, <<"\"", "x", "\"">>, <<")">>, <<"}">> >>,
      <<tFUNC.literal, NameMain, <<"(">>, <<")">>, <<"{">>,
        NamePrint, <<"(">>, <<"1">>, <<"+">>, <<"2">>, <<")">>, <<"}">> >>,
      <<tFUNC.literal, NameMain, <<"(">>, <<")">>, <<"{">>,
        NamePrint, <<"(">>, tTRUE.literal, <<")">>, <<"}">> >>,
      <<tFUNC.literal, NameMain, <<"(">>, <<"{">>, <<"}">> >>,
      <<>> }

\* how a source ends: well, with a string or a block comment left open, or
\* with a character that is in no token
SourceEnds == { <<>>, << <<"\"", "x">> >>, << <<"/", "*">> >>, << <<"@">> >> }

Sources ==
    { Spell(clause \o declaration \o end) :
          clause \in SourceClauses, declaration \in SourceDeclarations,
          end \in SourceEnds }

\* the source file was read; nothing else has happened
PipelineInit ==
    /\ \E source \in Sources :
          \E L \in {Lexer(source), Semi_Lexer(source)} :
             lexer = L /\ tokens = Ahead(L)
    /\ scanned = <<>>
    /\ lexError = NoError
    /\ given = [family |-> "source", parts |-> <<>>]
    /\ pos = 0
    /\ currentToken = NullToken
    /\ peekToken = NullToken
    /\ pc = "source"
    /\ program = NoNode
    /\ parseError = NoError
    /\ SemanticAnalyzer
    /\ NoGenerator
    /\ NoCollector
    /\ NoCompile

PipelineNext ==
    \/ NewParser
    \/ PackageClauseFromLexer
    \/ DeclarationFromLexer
    \/ ReturnProgram
    \/ AnalyzePackage
    \/ AnalyzeDeclaration
    \/ AnalyzeReturn
    \/ GenerateIR

PipelineSpec == PipelineInit /\ [][PipelineNext]_vars

-----------------------------------------------------------------------------
(* The errors and the ErrorCollector: src/unnamed/part_013.  An array is   *)
(* an entry of `heap` and is known by its index, so that two names for one *)
(* array can be told from two arrays with the same elements.               *)

\* number of calls made on one ErrorCollector
MaxCalls == 4

\* `new LexicalError(message, location)` and the like: the constructor of
\* CompilerError builds the message text and takes the name of the class
CompilerError(class, message, location, phase) ==
    [name |-> class,
     message |-> <<phase, " error at line ", ToString(location.line), ", column ",
                   ToString(location.column), ": ", message>>,
     location |-> location,
     phase |-> phase]

LexicalError(message, location) == CompilerError("LexicalError", message, location, "lexical")

SyntaxError(message, location) == CompilerError("SyntaxError", message, location, "syntax")

SemanticError(message, location) == CompilerError("SemanticError", message, location, "semantic")

\* the errors given to the collector
GivenErrors ==
    { LexicalError("First error", [line |-> 1, column |-> 1]),
      SyntaxError("Second error", [line |-> 2, column |-> 5]),
      SemanticError("Undefined variable", [line |-> 10, column |-> 5]) }

\* `private errors: CompilerError[] = []`
ErrorCollector ==
    /\ heap = << <<>> >>
    /\ collector = [errors |-> 1]
    /\ calls = <<>>

\* this.errors, the array
errorsOf(C, H) == H[C.errors]

\* a method returns [collector, heap, result]
Returned(C, H, result) == [collector |-> C, heap |-> H, result |-> result]

add(C, H, error) ==
    Returned(C, [H EXCEPT ![C.errors] = Append(@, error)], "undefined")

hasErrors(C, H) == Returned(C, H, Len(errorsOf(C, H)) > 0)

\* the mutant returns this.errors itself
getErrors_SameArray(C, H) == Returned(C, H, C.errors)

\* `return [...this.errors]`: a new array with the same elements
getErrors(C, H) == Returned(C, Append(H, errorsOf(C, H)), Len(H) + 1)

\* `this.errors = []`: a new array
clear(C, H) == Returned([C EXCEPT !.errors = Len(H) + 1], Append(H, <<>>), "undefined")

throwIfErrors(C, H) ==
    IF hasErrors(C, H).result
    THEN Returned(C, H, [thrown |-> errorsOf(C, H)[1]])
    ELSE Returned(C, H, "undefined")

\* errors.map((error, index) => `${index + 1}. ${error.message}`)
reportLines(errors) ==
    [index \in 1..Len(errors) |-> <<ToString(index), ". ">> \o errors[index].message]

getErrorReport(C, H) ==
    IF ~hasErrors(C, H).result
    THEN Returned(C, H, <<"No errors">>)
    ELSE Returned(C, H, join(reportLines(errorsOf(C, H))))

\* what the caller may do to an array that it holds: push an element, set
\* its length to 0, replace its first element
Pushed(array, error) == Append(array, error)

Truncated(array) == <<>>

Replaced(array, error) == IF array = <<>> THEN <<error>> ELSE [array EXCEPT ![1] = error]

\* the state after a call `op` with the argument `arg` that returned r
Called(op, arg, r) ==
    /\ collector' = r.collector
    /\ heap' = r.heap
    /\ calls' = Append(calls, [op |-> op, arg |-> arg, result |-> r.result])

CollectorInUse == collector # [type |-> "none"] /\ Len(calls) < MaxCalls

Add ==
    /\ CollectorInUse
    /\ \E error \in GivenErrors : Called("add", error, add(collector, heap, error))
    /\ UNCHANGED <<lexVars, parserVars, analyzerVars, genVars, toolVars>>

HasErrors ==
    /\ CollectorInUse
    /\ Called("hasErrors", "none", hasErrors(collector, heap))
    /\ UNCHANGED <<lexVars, parserVars, analyzerVars, genVars, toolVars>>

GetErrors ==
    /\ CollectorInUse
    /\ Called("getErrors", "none", getErrors(collector, heap))
    /\ UNCHANGED <<lexVars, parserVars, analyzerVars, genVars, toolVars>>

Clear ==
    /\ CollectorInUse
    /\ Called("clear", "none", clear(collector, heap))
    /\ UNCHANGED <<lexVars, parserVars, analyzerVars, genVars, toolVars>>

ThrowIfErrors ==
    /\ CollectorInUse
    /\ Called("throwIfErrors", "none", throwIfErrors(collector, heap))
    /\ UNCHANGED <<lexVars, parserVars, analyzerVars, genVars, toolVars>>

GetErrorReport ==
    /\ CollectorInUse
    /\ Called("getErrorReport", "none", getErrorReport(collector, heap))
    /\ UNCHANGED <<lexVars, parserVars, analyzerVars, genVars, toolVars>>

\* the arrays that getErrors has returned to the caller
ReturnedArrays == {calls[k].result : k \in {j \in DOMAIN calls : calls[j].op = "getErrors"}}

\* the caller changes an array that getErrors returned
ModifyReturned ==
    /\ CollectorInUse
    /\ \E array \in ReturnedArrays :
          \E changed \in {Pushed(heap[array], CHOOSE e \in GivenErrors : e.phase = "semantic"),
                          Truncated(heap[array]),
                          Replaced(heap[array], CHOOSE e \in GivenErrors : e.phase = "semantic")} :
             /\ changed # heap[array]
             /\ Called("modify", array,
                       Returned(collector, [heap EXCEPT ![array] = changed], "undefined"))
    /\ UNCHANGED <<lexVars, parserVars, analyzerVars, genVars, toolVars>>

CollectorInit ==
    /\ ErrorCollector
    /\ lexer = [kind |-> "tokens"]
    /\ scanned = <<>>
    /\ lexError = NoError
    /\ given = NoGiven
    /\ tokens = <<>>
    /\ pos = 0
    /\ currentToken = NullToken
    /\ peekToken = NullToken
    /\ pc = "collecting"
    /\ program = NoNode
    /\ parseError = NoError
    /\ SemanticAnalyzer
    /\ NoGenerator
    /\ NoCompile

CollectorNext ==
    \/ Add
    \/ HasErrors
    \/ GetErrors
    \/ Clear
    \/ ThrowIfErrors
    \/ GetErrorReport
    \/ ModifyReturned

CollectorSpec == CollectorInit /\ [][CollectorNext]_vars

-----------------------------------------------------------------------------
(* CompilerPipeline.compile: pipeline.ts, lines 102-239.  The disk is the   *)
(* set of files in the output directory; each await of the method is one   *)
(* step, whose outcome the environment chooses: a tool that is missing or  *)
(* fails, a file operation that throws.                                    *)

\* `${options.outputPath}.ll`, `${outputPath}.s` and outputPath
IrPath == "out.ll"

AssemblyPath == "out.s"

OutputPath == "out"

File(path, content) == [path |-> path, content |-> content]

exists(files, path) == \E f \in files : f.path = path

\* Deno.writeTextFile and the output file a tool writes: the file is replaced
written(files, path, content) ==
    {f \in files : f.path # path} \cup {File(path, content)}

\* Deno.remove(path) that succeeded
removed(files, path) == {f \in files : f.path # path}

\* { success: false, error }
Failure(error) == [success |-> FALSE, error |-> error]

\* { success: true }
Success == [success |-> TRUE, error |-> "undefined"]

NoResult == [success |-> FALSE, error |-> "pending"]

\* compile(llvmIR, options) is called with these files on the disk
CompileCalled(files, options) ==
    /\ disk = files
    /\ compile = [type |-> "compile", options |-> options, before |-> files,
                  tools |-> "unchecked", llc |-> "not run", clang |-> "not run",
                  threw |-> FALSE, result |-> NoResult]
    /\ pc = "checkLLVMTools"

\* the compile method returns `result`
Return(result) ==
    /\ compile' = [compile EXCEPT !.result = result]
    /\ pc' = "returned"

\* compile, lines 196-203, with checkLLVMTools, lines 106-129
CheckLLVMTools ==
    /\ pc = "checkLLVMTools"
    /\ \E outcome \in {"found", "llc failed", "clang failed", "threw"} :
          IF outcome = "found"
          THEN /\ compile' = [compile EXCEPT !.tools = outcome]
               /\ pc' = "writeTextFile"
          ELSE /\ compile' = [compile EXCEPT
                     !.tools = outcome,
                     !.result = Failure("LLVM tools (llc, clang) not found")]
               /\ pc' = "returned"
    /\ UNCHANGED <<disk, lexVars, given, tokens, pos, currentToken, peekToken, program,
                   parseError, analyzerVars, genVars, collectorVars>>

\* compile, lines 205-217 and the catch of lines 232-237
WriteIR ==
    /\ pc = "writeTextFile"
    /\ \/ /\ disk' = written(disk, IrPath, "ir")
          /\ IF compile.options.emitLLVM
             THEN Return(Success)
             ELSE /\ pc' = "llc"
                  /\ UNCHANGED compile
       \/ /\ UNCHANGED disk
          /\ compile' = [compile EXCEPT !.threw = TRUE,
                                        !.result = Failure("writeTextFile threw")]
          /\ pc' = "returned"
    /\ UNCHANGED <<lexVars, given, tokens, pos, currentToken, peekToken, program,
                   parseError, analyzerVars, genVars, collectorVars>>

\* compileLLVMIR, lines 139-159 and the catch of lines 180-185; llc that
\* fails leaves no output file
RunLlc ==
    /\ pc = "llc"
    /\ \/ /\ disk' = written(disk, AssemblyPath, "assembly")
          /\ compile' = [compile EXCEPT !.llc = "succeeded"]
          /\ pc' = "clang"
       \/ /\ UNCHANGED disk
          /\ \E outcome \in {"failed", "threw"} :
                compile' = [compile EXCEPT !.llc = outcome,
                                           !.result = Failure("llc")]
          /\ pc' = "remove ll"
    /\ UNCHANGED <<lexVars, given, tokens, pos, currentToken, peekToken, program,
                   parseError, analyzerVars, genVars, collectorVars>>

\* compileLLVMIR, lines 161-174 and the catch of lines 180-185
RunClang ==
    /\ pc = "clang"
    /\ \/ /\ disk' = written(disk, OutputPath, "executable")
          /\ compile' = [compile EXCEPT !.clang = "succeeded"]
          /\ pc' = "remove s"
       \/ /\ UNCHANGED disk
          /\ \E outcome \in {"failed", "threw"} :
                compile' = [compile EXCEPT !.clang = outcome,
                                           !.result = Failure("clang")]
          /\ pc' = "remove ll"
    /\ UNCHANGED <<lexVars, given, tokens, pos, currentToken, peekToken, program,
                   parseError, analyzerVars, genVars, collectorVars>>

\* compileLLVMIR, lines 176-179 and the catch of lines 180-185
RemoveAssembly ==
    /\ pc = "remove s"
    /\ \/ /\ exists(disk, AssemblyPath)
          /\ disk' = removed(disk, AssemblyPath)
          /\ compile' = [compile EXCEPT !.result = Success]
       \/ /\ UNCHANGED disk
          /\ compile' = [compile EXCEPT !.threw = TRUE,
                                        !.result = Failure("remove threw")]
    /\ pc' = "remove ll"
    /\ UNCHANGED <<lexVars, given, tokens, pos, currentToken, peekToken, program,
                   parseError, analyzerVars, genVars, collectorVars>>

\* compile, lines 226-231: Deno.remove(irPath).catch(() => {}), return result
RemoveIR ==
    /\ pc = "remove ll"
    /\ \/ /\ exists(disk, IrPath)
          /\ disk' = removed(disk, IrPath)
          /\ UNCHANGED compile
       \/ /\ UNCHANGED disk
          /\ compile' = [compile EXCEPT !.threw = TRUE]
    /\ pc' = "returned"
    /\ UNCHANGED <<lexVars, given, tokens, pos, currentToken, peekToken, program,
                   parseError, analyzerVars, genVars, collectorVars>>

\* the files that may be in the output directory before compile is called
OldFiles == SUBSET {File(IrPath, "old"), File(AssemblyPath, "old"), File(OutputPath, "old")}

\* the option that decides what compile does
CompileOptionsGiven ==
    [emitLLVM : BOOLEAN]

ToolchainInit ==
    /\ \E files \in OldFiles : \E options \in CompileOptionsGiven :
          CompileCalled(files, options)
    /\ TokenSource
    /\ given = NoGiven
    /\ tokens = <<>>
    /\ pos = 0
    /\ currentToken = NullToken
    /\ peekToken = NullToken
    /\ program = NoNode
    /\ parseError = NoError
    /\ SemanticAnalyzer
    /\ NoGenerator
    /\ NoCollector

ToolchainNext ==
    \/ CheckLLVMTools
    \/ WriteIR
    \/ RunLlc
    \/ RunClang
    \/ RemoveAssembly
    \/ RemoveIR

ToolchainSpec == ToolchainInit /\ [][ToolchainNext]_vars

-----------------------------------------------------------------------------
(* Claims about the parser *)

\* a node without its locations
RECURSIVE Shape(_)
Shape(node) ==
    CASE node.type = "InfixExpression" ->
           <<"InfixExpression", node.operator, Shape(node.left), Shape(node.right)>>
      [] node.type = "CallExpression" ->
           <<"CallExpression", node.function.value,
             [i \in 1..Len(node.arguments) |-> Shape(node.arguments[i])]>>
      [] OTHER -> <<node.type, node.value>>

\* the expression family's program has its one declaration, or the parse threw
ExpressionParsed ==
    /\ given.family \in {"infix", "primary"}
    /\ pc \notin {"parseProgram", "thrown"}
    /\ Len(program.declarations) = 1

ExpressionRejected == given.family \in {"infix", "primary"} /\ pc = "thrown"

\* the expression of `return <expression>` in the parsed program
ParsedExpression == program.declarations[1].body.statements[1].returnValue

\* C1: parseProgram terminates on every token stream: a thrown error is a
\* located parser error, and every pass through the declaration loop that does
\* not throw consumes a token, so that the loop reaches EOF; in particular a
\* token after the package clause that is neither `func` nor EOF aborts the parse
C1_ParseProgramTerminates ==
    /\ parseError # NoError =>
          /\ parseError.message[1] = "Parser error"
          /\ parseError.line >= 1 /\ parseError.column >= 1
    /\ (pc = "declarations" /\ currentToken.type # "EOF") =>
          \/ ~parseDeclarationStep(tokens, pos, program).ok
          \/ parseDeclarationStep(tokens, pos, program).pos > pos

\* what the operand written as these tokens is
OperandShape(operand) ==
    CASE operand = <<Tok("INT", <<"1">>)>> -> <<"IntegerLiteral", 1>>
      [] operand = <<Tok("INT", <<"4", "2">>)>> -> <<"IntegerLiteral", 42>>
      [] operand = <<Ident(NameX)>> -> <<"Identifier", NameX>>
      [] operand = <<Tok("STRING", <<"s">>)>> -> <<"StringLiteral", <<"s">>>>
      [] operand = <<Tok("STRING", NamePrint)>> -> <<"StringLiteral", NamePrint>>
      [] operand = <<tTRUE>> -> <<"BooleanLiteral", TRUE>>
      [] operand = <<Ident(NamePrint), Punct("("), Tok("INT", <<"1">>), Punct(")")>> ->
           <<"CallExpression", NamePrint, <<(<<"IntegerLiteral", 1>>)>> >>
      [] operand = <<Punct("("), Tok("INT", <<"1">>), Punct("+"), Tok("INT", <<"2">>),
                     Punct(")")>> ->
           <<"InfixExpression", <<"+">>, <<"IntegerLiteral", 1>>, <<"IntegerLiteral", 2>> >>
      [] operand = <<Punct("("), Ident(NameX), Punct("*"), Tok("INT", <<"2">>),
                     Punct("-"), Tok("INT", <<"1">>), Punct(")")>> ->
           <<"InfixExpression", <<"-">>,
             <<"InfixExpression", <<"*">>, <<"Identifier", NameX>>, <<"IntegerLiteral", 2>> >>,
             <<"IntegerLiteral", 1>> >>

\* the tree of `a op1 b op2 c`: `*` and `/` bind tighter, each level groups left
PrecedenceTree(a, op1, b, op2, c) ==
    IF op1 \in {<<"+">>, <<"-">>} /\ op2 \in {<<"*">>, <<"/">>}
    THEN <<"InfixExpression", op1, a, <<"InfixExpression", op2, b, c>> >>
    ELSE <<"InfixExpression", op2, <<"InfixExpression", op1, a, b>>, c>>

GivenTree ==
    PrecedenceTree(OperandShape(given.parts[1]), given.parts[2][1].literal,
                   OperandShape(given.parts[3]), given.parts[4][1].literal,
                   OperandShape(given.parts[5]))

\* an operand that starts with a token whose literal is `print`
StartsWithPrint(operand) == operand[1].literal = NamePrint

\* the precedence and grouping of operands that do not start with `print`
PrecedenceWithoutPrint ==
    (/\ given.family = "infix"
     /\ ~StartsWithPrint(given.parts[1])
     /\ ~StartsWithPrint(given.parts[3])
     /\ ~StartsWithPrint(given.parts[5])
     /\ pc \notin {"parseProgram"}) =>
        /\ pc # "thrown"
        /\ Len(program.declarations) = 1 => Shape(ParsedExpression) = GivenTree

\* C5: for any operands a, b, c and binary operators, `a op1 b op2 c` parses,
\* `*` and `/` binding tighter than `+` and `-`, both levels grouping to the
\* left, a parenthesized sub-expression being one operand
C5_PrecedenceAndAssociativity ==
    (given.family = "infix" /\ pc \notin {"parseProgram"}) =>
        /\ pc # "thrown"
        /\ Len(program.declarations) = 1 => Shape(ParsedExpression) = GivenTree

\* the primary given, and whether a `(` follows its first token
GivenPrimary == given.parts[1]

FollowedByParen == Len(GivenPrimary) >= 2 /\ GivenPrimary[2].type = "("

\* C6: a CallExpression is produced exactly when the current token is an
\* identifier immediately followed by `(`, whatever its name; an INT token alone
\* yields an IntegerLiteral, a STRING token a StringLiteral with the token's
\* value, TRUE/FALSE a BooleanLiteral, an identifier alone an Identifier
C6_CallIsIdentifierThenParen ==
    (given.family = "primary" /\ pc \notin {"parseProgram"}) =>
        /\ (GivenPrimary[1].type = "IDENT" /\ FollowedByParen) =>
              /\ pc # "thrown"
              /\ Len(program.declarations) = 1 =>
                    /\ ParsedExpression.type = "CallExpression"
                    /\ ParsedExpression.function.value = GivenPrimary[1].literal
        /\ Len(GivenPrimary) = 1 =>
              /\ pc # "thrown"
              /\ Len(program.declarations) = 1 =>
                    /\ ParsedExpression.type =
                          CASE GivenPrimary[1].type = "INT" -> "IntegerLiteral"
                            [] GivenPrimary[1].type = "STRING" -> "StringLiteral"
                            [] GivenPrimary[1].type \in {"TRUE", "FALSE"} -> "BooleanLiteral"
                            [] GivenPrimary[1].type = "IDENT" -> "Identifier"
                    /\ GivenPrimary[1].type \in {"STRING", "IDENT"} =>
                          ParsedExpression.value = GivenPrimary[1].literal
        /\ (ExpressionParsed /\ ParsedExpression.type = "CallExpression") =>
              GivenPrimary[1].type = "IDENT" /\ FollowedByParen

-----------------------------------------------------------------------------
(* Claims about the analyzer *)

\* analyze is through with the first declaration, or has thrown
FirstDeclarationAnalyzed ==
    \/ pc \in {"analyzed", "rejected"}
    \/ pc = "analyzing" /\ declIndex > 1

\* the expression of the one statement of the expression family's program
GivenExpression == program.declarations[1].body.statements[1].expression

RejectedWith(message, location) ==
    /\ pc = "rejected"
    /\ semanticError = [kind |-> "SemanticError", message |-> message,
                        location |-> location]

\* an expression built of integer literals and + - * / only
RECURSIVE IntArithmetic(_)
IntArithmetic(expr) ==
    \/ expr.type = "IntegerLiteral"
    \/ /\ expr.type = "InfixExpression"
       /\ expr.operator \in {<<"+">>, <<"-">>, <<"*">>, <<"/">>}
       /\ IntArithmetic(expr.left)
       /\ IntArithmetic(expr.right)

\* the type of a well-typed expression, "none" when it has none
RECURSIVE TypeOf(_)
TypeOf(expr) ==
    CASE expr.type = "IntegerLiteral" -> "int"
      [] expr.type = "StringLiteral" -> "string"
      [] expr.type = "BooleanLiteral" -> "bool"
      [] expr.type = "InfixExpression" -> IF IntArithmetic(expr) THEN "int" ELSE "none"
      [] expr.type = "CallExpression" ->
           IF /\ expr.function.value = NamePrint
              /\ Len(expr.arguments) = 1
              /\ TypeOf(expr.arguments[1]) \in {"string", "int"}
           THEN "void" ELSE "none"
      [] OTHER -> "none"

\* C7: an infix expression with an operator among + - * / and typed operands has
\* the type int when both operands are int, and is otherwise rejected with
\* "Cannot perform arithmetic operation '<op>' on types <left> and <right>"; with
\* any other operator it is rejected as an unsupported operator; no infix
\* expression with a non-int operand at any depth is accepted
C7_ArithmeticNeedsInts ==
    (/\ given.family = "expression"
     /\ FirstDeclarationAnalyzed
     /\ GivenExpression.type = "InfixExpression") =>
        LET expr == GivenExpression
            leftType == TypeOf(expr.left)
            rightType == TypeOf(expr.right)
            typed == leftType # "none" /\ rightType # "none"
            arithmetic == expr.operator \in {<<"+">>, <<"-">>, <<"*">>, <<"/">>}
        IN /\ (typed /\ arithmetic /\ leftType = "int" /\ rightType = "int") =>
                  pc # "rejected" /\ inferred = "int"
           /\ (typed /\ arithmetic /\ ~(leftType = "int" /\ rightType = "int")) =>
                  RejectedWith(<<"Cannot perform arithmetic operation", expr.operator,
                                 "on types", leftType, rightType>>, expr.location)
           /\ (typed /\ ~arithmetic) =>
                  RejectedWith(<<"Operator not yet supported", expr.operator>>,
                               expr.location)
           /\ pc # "rejected" => IntArithmetic(expr)

\* a nested expression with a string two levels down is rejected
C7_Witness ==
    /\ given.family = "expression"
    /\ GivenExpression = Infix(<<"*">>, LeafInt, Infix(<<"+">>, LeafInt, LeafString))
    /\ RejectedWith(<<"Cannot perform arithmetic operation", <<"+">>, "on types",
                      "int", "string">>, At(6))

\* C8: a call is accepted only if the callee is `print` and its one argument is
\* a string or an int, and its type is then void; print with another number of
\* arguments fails with 'Function print expects 1 argument, but got N', with
\* one bool or void argument with 'Cannot print value of type T', and a call
\* to any other name fails with 'Undefined function'
C8_OnlyPrintIsCallable ==
    (/\ given.family = "expression"
     /\ FirstDeclarationAnalyzed
     /\ GivenExpression.type = "CallExpression") =>
        LET expr == GivenExpression
            callee == expr.function.value
            count == Len(expr.arguments)
        IN /\ pc # "rejected" =>
                  /\ callee = NamePrint
                  /\ count = 1
                  /\ TypeOf(expr.arguments[1]) \in {"string", "int"}
                  /\ inferred = "void"
           /\ (callee = NamePrint /\ count # 1) =>
                  RejectedWith(<<"Function", NamePrint, "expects 1 argument, but got",
                                 ToString(count)>>, expr.location)
           /\ (callee = NamePrint /\ count = 1
                  /\ TypeOf(expr.arguments[1]) \in {"bool", "void"}) =>
                  RejectedWith(<<"Cannot print value of type",
                                 TypeOf(expr.arguments[1])>>,
                               expr.arguments[1].location)
           /\ callee # NamePrint =>
                  RejectedWith(<<"Undefined function", callee>>, expr.location)

\* the calls of names that builtinFunctions neither holds nor inherits
C8_WithoutInheritedNames ==
    (/\ given.family = "expression"
     /\ GivenExpression.type = "CallExpression"
     /\ GivenExpression.function.value \in InheritedProperties)
    \/ C8_OnlyPrintIsCallable

MainWithParameters(decl) == decl.name = NameMain /\ Len(decl.parameters) > 0

MainWithReturnType(decl) == decl.name = NameMain /\ decl.returnType # NullNode

ParametersMessage == <<"main function cannot have parameters">>

ReturnTypeMessage == <<"main function cannot have explicit return type">>

Declarations == program.declarations

AnalyzeEnded == pc \in {"analyzed", "rejected"}

\* C9, as stated: a program with a `main` that has parameters, or an explicit
\* return type, is rejected with the message of a constraint that it violates,
\* wherever that function is; the messages are for functions named `main` only
C9_MainMessageWherever ==
    AnalyzeEnded =>
        /\ (\E i \in DOMAIN Declarations :
               MainWithParameters(Declarations[i]) \/ MainWithReturnType(Declarations[i])) =>
              /\ pc = "rejected"
              /\ semanticError.message \in
                    {ParametersMessage : i \in {j \in DOMAIN Declarations :
                                                   MainWithParameters(Declarations[j])}}
                    \cup {ReturnTypeMessage : i \in {j \in DOMAIN Declarations :
                                                   MainWithReturnType(Declarations[j])}}
        /\ semanticError.message \in {ParametersMessage, ReturnTypeMessage} =>
              Declarations[declIndex].name = NameMain

\* the declarations before the k-th analyze without error
EarlierDeclarationsPass(k) ==
    \A j \in 1..(k - 1) :
        analyzeFunctionDeclaration(Declarations[j], <<EmptyScope>>).result.ok

\* C9, amended: a program with a `main` that has parameters or an explicit
\* return type is always rejected; the error is the one about main (parameters
\* first, then the return type) when the package is main and the declarations
\* before that function analyze without error, and it is about a function
\* named `main` that violates the constraint named
C9_MainRejected ==
    AnalyzeEnded =>
        /\ \A k \in DOMAIN Declarations :
              (MainWithParameters(Declarations[k]) \/ MainWithReturnType(Declarations[k])) =>
                  /\ pc = "rejected"
                  /\ (program.package = NameMain /\ EarlierDeclarationsPass(k)) =>
                        /\ declIndex = k
                        /\ RejectedWith(IF MainWithParameters(Declarations[k])
                                        THEN ParametersMessage ELSE ReturnTypeMessage,
                                        Declarations[k].location)
        /\ semanticError.message = ParametersMessage =>
              MainWithParameters(Declarations[declIndex])
        /\ semanticError.message = ReturnTypeMessage =>
              MainWithReturnType(Declarations[declIndex])

\* a main with a return type, declared second, is rejected for it
C9_Witness ==
    /\ pc = "rejected"
    /\ declIndex = 2
    /\ Declarations[1].name = NameFoo
    /\ MainWithReturnType(Declarations[2])
    /\ semanticError.message = ReturnTypeMessage

PackageMessage == <<"Package must be \"main\"">>

LocatedSemanticError ==
    /\ semanticError.kind = "SemanticError"
    /\ semanticError.location.line >= 1
    /\ semanticError.location.column >= 1

\* the expression statement given to analyze refers to an identifier that no
\* scope defines, by itself or as the argument of print
RefersToUndefinedIdentifier ==
    /\ given.family = "expression"
    /\ GivenExpression \in {LeafIdent, Call(NamePrint, <<LeafIdent>>),
                            Infix(<<"+">>, LeafIdent, LeafInt)}

\* C11: analyze either returns or fails with a SemanticError that carries a
\* source line and column, and no other kind of error escapes it; an
\* undefined identifier in particular fails with such a located error.
C11_OnlyLocatedSemanticErrors ==
    /\ pc = "rejected" => LocatedSemanticError
    /\ (RefersToUndefinedIdentifier /\ AnalyzeEnded)
          => pc = "rejected" /\ LocatedSemanticError

\* apart from undefined identifiers and the names builtinFunctions inherits,
\* what analyze throws is a located SemanticError
C11_OtherErrorsLocated ==
    (pc = "rejected" /\ semanticError.kind \notin {"Error", "TypeError"})
       => LocatedSemanticError

\* C12: whenever analyze finishes, by returning or by throwing, the scope
\* stack is as deep as before the call (empty for a fresh analyzer): every
\* scope pushed is popped exactly once, also when the analysis fails.
C12_ScopeStackBalanced ==
    AnalyzeEnded => scopeStack = <<>>

\* when analyze returns, the stack is balanced, and no scope is popped off an
\* empty stack on the way
C12_BalancedOnReturn ==
    /\ pc = "analyzed" => scopeStack = <<>>
    /\ pc = "analyzing" => Len(scopeStack) = 1


-----------------------------------------------------------------------------
(* Claims about the generator *)

Output == generator.output

DefineLine == <<"define i32 @main() {", "\n">>

EntryLine == <<"entry:", "\n">>

RetLine == <<"  ret i32 0", "\n">>

\* how many pieces of a text, or lines of a buffer, are the given one
Occurrences(seq, x) == Cardinality({i \in DOMAIN seq : seq[i] = x})

\* the print statements of the function given to generate
PrintStatements ==
    IF program.declarations = <<>> THEN <<>>
    ELSE program.declarations[1].body.statements

PrintedArgument(i) == PrintStatements[i].expression.arguments[1]

\* a line that assigns a temporary: "%n = ..." with or without indentation
IsInstruction(line) ==
    \/ line[1] = "%"
    \/ Len(line) >= 2 /\ line[1] = "  " /\ line[2] = "%"

\* the number of the temporary an instruction line assigns
Assigned(line) == IF line[1] = "%" THEN line[2] ELSE line[3]

IsGlobalConstant(line) ==
    line = StrFmtLine \/ line = IntFmtLine \/ line[1] = "@.str."

\* the index of the first line of the buffer that is `line`, 0 when none is
FirstIndex(out, line) ==
    IF \E i \in DOMAIN out : out[i] = line
    THEN CHOOSE i \in DOMAIN out : out[i] = line /\ \A j \in 1..(i - 1) : out[j] # line
    ELSE 0

\* one generated text of a clean generator: one header, one @main block,
\* temporaries from %1 and string constants from @.str.0
CleanText(text) ==
    /\ Occurrences(text, DeclareLine[1]) = 1
    /\ Occurrences(text, DefineLine[1]) = 1
    /\ \A i \in DOMAIN text :
          /\ (text[i] = "%" /\ \A j \in 1..(i - 1) : text[j] # "%") => text[i + 1] = "1"
          /\ (text[i] = "@.str." /\ \A j \in 1..(i - 1) : text[j] # "@.str.")
                => text[i + 1] = "0"

\* C13: every generate call starts from a clean state, so calling generate
\* twice on one generator with the same Program returns the same text both
\* times, each with one module header and one `define i32 @main()` block,
\* temporaries numbered from %1 and string constants from @.str.0.
C13_GenerateStartsClean ==
    \A k \in DOMAIN irTexts : irTexts[k] = irTexts[1] /\ CleanText(irTexts[k])

\* the first call on a fresh generator returns such a text
C13_FirstCallClean ==
    Len(irTexts) >= 1 => CleanText(irTexts[1])


\* the buffer `after` is the buffer `before` with lines added at its end
IsExtension(before, after) ==
    /\ Len(before) <= Len(after)
    /\ SubSeq(after, 1, Len(before)) = before

\* the structure of a buffer that holds one generated text: the declare line,
\* then global constants only, then one @main block that holds every
\* instruction between `entry:` and `ret i32 0`
WellStructured(out) ==
    /\ out[1] = DeclareLine
    /\ Occurrences(out, DefineLine) = 1
    /\ Occurrences(out, RetLine) = 1
    /\ \A i \in 2..(FirstIndex(out, DefineLine) - 1) : IsGlobalConstant(out[i])
    /\ out[FirstIndex(out, DefineLine) + 1] = EntryLine
    /\ \A i \in DOMAIN out :
          IsInstruction(out[i]) =>
             /\ FirstIndex(out, EntryLine) < i
             /\ i < FirstIndex(out, RetLine)
    /\ \A i \in (FirstIndex(out, DefineLine) + 2)..(FirstIndex(out, RetLine) - 1) :
          IsInstruction(out[i])
    /\ Len(out) = FirstIndex(out, RetLine) + 1

FirstCallReturns == pc' = "generated" /\ Len(irTexts') = 1

\* C14: the text generate returns is the declare line, then global constants
\* only, then exactly one `define i32 @main() {` block with every instruction
\* line between `entry:` and `ret i32 0`; during generation lines are only
\* appended to the end of the buffer.
C14_AppendOnlyStructure ==
    [][/\ IsExtension(Output, Output')
       /\ FirstCallReturns => WellStructured(Output')]_vars

\* the print of a string literal alone keeps that structure and order
C14_StringPrintsStructured ==
    [][(/\ PrintStatements # <<>>
        /\ PrintedArgument(1).type = "StringLiteral")
          => /\ IsExtension(Output, Output')
             /\ FirstCallReturns => WellStructured(Output')]_vars


CallPieces ==
    { " = call i32 (i8*, ...) @printf(i8* ",
      " = call i32 (i8*, ...) @printf(i8* getelementptr inbounds ([4 x i8], [4 x i8]* " }

IsCall(line) == \E i \in DOMAIN line : line[i] \in CallPieces

\* the instruction lines of a buffer, in the order they stand in it
Instructions(out) == SelectSeq(out, IsInstruction)

\* the first generate call on the generator has returned, and no other call
\* was made
FirstCallReturned == pc = "generated" /\ Len(irTexts) = 1

\* C15: generate lowers every statement of the function body in source
\* order: a body of n print statements gives n printf calls, statement i
\* before statement i+1, then a single `ret i32 0`, with temporaries numbered
\* consecutively across the statements.
C15_AllStatementsLowered ==
    FirstCallReturned =>
        /\ Len(SelectSeq(Output, IsCall)) = Len(PrintStatements)
        /\ Occurrences(Output, RetLine) = 1
        /\ \A k \in DOMAIN Instructions(Output) :
              Assigned(Instructions(Output)[k]) = ToString(k)
        /\ generator.varCounter = Len(Instructions(Output))

\* the first statement is lowered, with temporaries numbered from %1
C15_FirstStatementLowered ==
    FirstCallReturned =>
        /\ Len(SelectSeq(Output, IsCall)) = IF PrintStatements = <<>> THEN 0 ELSE 1
        /\ Occurrences(Output, RetLine) = 1
        /\ \A k \in DOMAIN Instructions(Output) :
              Assigned(Instructions(Output)[k]) = ToString(k)
        /\ generator.varCounter = Len(Instructions(Output))

Mnemonic(operator) ==
    CASE operator = <<"+">> -> " = add i32 "
      [] operator = <<"-">> -> " = sub i32 "
      [] operator = <<"*">> -> " = mul i32 "
      [] operator = <<"/">> -> " = sdiv i32 "

IsArithmetic(line) ==
    \E i \in DOMAIN line :
        line[i] \in {" = add i32 ", " = sub i32 ", " = mul i32 ", " = sdiv i32 "}

\* an instruction line without its indentation
Unindented(line) == IF line[1] = "  " THEN Tail(line) ELSE line

\* the lowering the language asks for, with k temporaries taken so far: the
\* left operand, then the right one, then one instruction into temporary
\* next + 1
RECURSIVE Lowered(_, _)
Lowered(expr, k) ==
    IF expr.type = "IntegerLiteral"
    THEN [lines |-> <<>>, value |-> <<ToString(expr.value)>>, next |-> k]
    ELSE LET L == Lowered(expr.left, k)
             R == Lowered(expr.right, L.next)
         IN [lines |-> L.lines \o R.lines
                       \o << <<"%", ToString(R.next + 1), Mnemonic(expr.operator)>>
                             \o L.value \o <<", ">> \o R.value >>,
             value |-> <<"%", ToString(R.next + 1)>>,
             next |-> R.next + 1]

RECURSIVE OnlyAdditions(_)
OnlyAdditions(expr) ==
    expr.type = "InfixExpression" =>
        /\ expr.operator = <<"+">>
        /\ OnlyAdditions(expr.left)
        /\ OnlyAdditions(expr.right)

\* the one statement of main prints an integer literal or an arithmetic
\* expression, and the first generate call is over
IntegerPrintGenerated ==
    /\ given.family = "generate"
    /\ Len(PrintStatements) = 1
    /\ PrintedArgument(1).type \in {"IntegerLiteral", "InfixExpression"}
    /\ pc # "checked"
    /\ Len(irTexts) <= 1

LoweredAsAsked ==
    /\ pc = "generated"
    /\ [k \in DOMAIN SelectSeq(Output, IsArithmetic) |->
           Unindented(SelectSeq(Output, IsArithmetic)[k])]
         = Lowered(PrintedArgument(1), 0).lines

\* C16: emitIntegerExpression lowers an InfixExpression by lowering the left
\* operand, then the right one, then emitting one instruction into a fresh
\* temporary (add, sub, mul, sdiv for + - * /); a literal lowers to its
\* decimal text and emits nothing; every expression of integer literals and
\* the four operators is lowered without error.
C16_IntegerExpressionLowered ==
    IntegerPrintGenerated => LoweredAsAsked

\* expressions of literals and `+` alone are lowered that way
C16_AdditionsLowered ==
    (IntegerPrintGenerated /\ OnlyAdditions(PrintedArgument(1))) => LoweredAsAsked


\* the bytes a control escape denotes, in the IR's notation \XX
HexOf(c) ==
    CASE c = "n" -> <<"\\", "0", "A">>
      [] c = "r" -> <<"\\", "0", "D">>
      [] c = "t" -> <<"\\", "0", "9">>
      [] c = "\"" -> <<"\\", "2", "2">>
      [] c = "\\" -> <<"\\", "5", "C">>

KnownEscapes == {"n", "r", "t", "\"", "\\"}

\* the number of bytes of the decoded string: one for each escape sequence
\* and one for every other character
RECURSIVE DecodedLength(_)
DecodedLength(value) ==
    IF value = <<>> THEN 0
    ELSE IF value[1] = "\\" /\ Len(value) >= 2
    THEN 1 + DecodedLength(SubSeq(value, 3, Len(value)))
    ELSE 1 + DecodedLength(Tail(value))

\* the decoded string in the IR's notation
RECURSIVE HexNotation(_)
HexNotation(value) ==
    IF value = <<>> THEN <<>>
    ELSE IF value[1] = "\\" /\ Len(value) >= 2
    THEN HexOf(value[2]) \o HexNotation(SubSeq(value, 3, Len(value)))
    ELSE <<value[1]>> \o HexNotation(Tail(value))

\* every escape sequence of the value is one of the language
RECURSIVE EscapesKnown(_)
EscapesKnown(value) ==
    IF value = <<>> THEN TRUE
    ELSE IF value[1] = "\\" /\ Len(value) >= 2
    THEN value[2] \in KnownEscapes /\ EscapesKnown(SubSeq(value, 3, Len(value)))
    ELSE EscapesKnown(Tail(value))

\* the one statement of main prints a string literal and the first generate
\* call has returned
StringPrintGenerated ==
    /\ FirstCallReturned
    /\ Len(PrintStatements) = 1
    /\ PrintedArgument(1).type = "StringLiteral"

\* the line of the buffer that defines the string constant
ConstantLine == Output[3]

\* the declared length N and the bytes of a string constant line
DeclaredLength(line) == line[4]

ConstantBytes(line) == SubSeq(line, 6, Len(line) - 2)

ConstantAsAsked(value) ==
    /\ ConstantLine[1] = "@.str."
    /\ ConstantLine[Len(ConstantLine) - 1] = "\\00\", align 1"
    /\ DeclaredLength(ConstantLine) = ToString(DecodedLength(value) + 1)
    /\ EscapesKnown(value) => ConstantBytes(ConstantLine) = HexNotation(value)

\* C17: the global constant emitted for a string literal is null-terminated
\* and its declared length N is the number of bytes of the decoded string
\* plus one: each escape sequence is one byte, written in two-digit
\* hexadecimal notation, every other character is one byte.
C17_StringConstantLength ==
    StringPrintGenerated => ConstantAsAsked(PrintedArgument(1).value)

\* the value holds plain characters and the escapes \n, \r, \t only
RECURSIVE ControlEscapesOnly(_)
ControlEscapesOnly(value) ==
    IF value = <<>> THEN TRUE
    ELSE IF value[1] = "\\" /\ Len(value) >= 2
    THEN value[2] \in {"n", "r", "t"} /\ ControlEscapesOnly(SubSeq(value, 3, Len(value)))
    ELSE ControlEscapesOnly(Tail(value))

\* for plain characters and the escapes \n, \r, \t the constant is as asked
C17_ControlEscapes ==
    (StringPrintGenerated /\ ControlEscapesOnly(PrintedArgument(1).value))
       => ConstantAsAsked(PrintedArgument(1).value)

\* the declared length alone is right whenever every escape is one of the
\* language
C17_LengthOfKnownEscapes ==
    (StringPrintGenerated /\ EscapesKnown(PrintedArgument(1).value))
       => DeclaredLength(ConstantLine)
             = ToString(DecodedLength(PrintedArgument(1).value) + 1)


-----------------------------------------------------------------------------
(* Claims about the positions of tokens and nodes *)

\* the 1-based line and column of the character at index i of a text (of the
\* end of the text when i is one past it)
LineAt(input, i) ==
    1 + Cardinality({j \in 1..(i - 1) : j <= Len(input) /\ input[j] = "\n"})

LastBreakBefore(input, i) ==
    IF \E j \in 1..(i - 1) : j <= Len(input) /\ input[j] = "\n"
    THEN CHOOSE j \in 1..(i - 1) :
             /\ j <= Len(input) /\ input[j] = "\n"
             /\ \A m \in (j + 1)..(i - 1) : m > Len(input) \/ input[m] # "\n"
    ELSE 0

ColumnAt(input, i) == i - LastBreakBefore(input, i)

\* the index of the first character at or after i that equals c, one past the
\* end when there is none
RECURSIVE IndexOfChar(_, _, _)
IndexOfChar(input, i, c) ==
    IF i > Len(input) THEN Len(input) + 1
    ELSE IF input[i] = c THEN i
    ELSE IndexOfChar(input, i + 1, c)

\* the index of the first "*" at or after i that "/" follows, 0 when the
\* block comment is not closed
RECURSIVE IndexOfClose(_, _)
IndexOfClose(input, i) ==
    IF i >= Len(input) THEN 0
    ELSE IF input[i] = "*" /\ input[i + 1] = "/" THEN i
    ELSE IndexOfClose(input, i + 1)

\* the index at which the next token starts, looking from index i: white
\* space is passed over, and comments are where the lexer has comments
RECURSIVE TokenStart(_, _, _)
TokenStart(input, i, comments) ==
    IF i > Len(input) THEN Len(input) + 1
    ELSE IF isWhitespace(input[i]) THEN TokenStart(input, i + 1, comments)
    ELSE IF comments /\ input[i] = "/" /\ i < Len(input) /\ input[i + 1] = "/"
    THEN TokenStart(input, IndexOfChar(input, i, "\n"), comments)
    ELSE IF comments /\ input[i] = "/" /\ i < Len(input) /\ input[i + 1] = "*"
            /\ IndexOfClose(input, i + 2) # 0
    THEN TokenStart(input, IndexOfClose(input, i + 2) + 2, comments)
    ELSE i

\* a token the lexer makes up: it has no character of the text
Synthesized(kind, token) ==
    token.type = "EOF" \/ (kind = "semi" /\ token.type = ";")

\* how many characters of the text a token that starts at `start` takes
TokenWidth(kind, input, start, token) ==
    CASE token.type = "STRING" ->
           IF start + Len(token.literal) + 1 <= Len(input)
              /\ input[start + Len(token.literal) + 1] = "\""
           THEN Len(token.literal) + 2
           ELSE Len(token.literal) + 1
      [] token.type = "ILLEGAL" /\ token.literal = UnterminatedComment ->
           Len(input) + 1 - start
      [] OTHER -> Len(token.literal)

\* the index after the k-th token of the scan; 1 before the first token
RECURSIVE EndOfToken(_, _, _, _)
EndOfToken(kind, input, toks, k) ==
    IF k = 0 THEN 1
    ELSE IF Synthesized(kind, toks[k]) THEN EndOfToken(kind, input, toks, k - 1)
    ELSE TokenStart(input, EndOfToken(kind, input, toks, k - 1), kind = "comment")
         + TokenWidth(kind, input,
               TokenStart(input, EndOfToken(kind, input, toks, k - 1), kind = "comment"),
               toks[k])

\* the index of the first character of the k-th token of the scan
StartOfToken(k) ==
    TokenStart(lexer.input, EndOfToken(lexer.kind, lexer.input, scanned, k - 1),
               lexer.kind = "comment")

AtFirstCharacter(k) ==
    /\ scanned[k].line = LineAt(lexer.input, StartOfToken(k))
    /\ scanned[k].column = ColumnAt(lexer.input, StartOfToken(k))

\* C18: in the comment-aware Lexer every token carries the 1-based line and
\* column of its first character, multi-character tokens included; the column
\* restarts at 1 after each newline, and a token after a comment carries its
\* own line and column.
C18_TokenAtFirstCharacter ==
    lexer.kind = "comment" =>
        \A k \in DOMAIN scanned :
            scanned[k].type # "EOF" => AtFirstCharacter(k)

\* an identifier of two characters after a block comment that spans a line
\* break is at line 2, column 4
C18_Witness ==
    /\ lexer.kind = "comment"
    /\ lexer.input = <<"/", "*", "\n", "*", "/", " ", "a", "a">>
    /\ Len(scanned) >= 1
    /\ scanned[1] = [type |-> "IDENT", literal |-> <<"a", "a">>, line |-> 2, column |-> 4]

\* the first EOF token is at the position one past the last character
C18_FirstEOFAtEnd ==
    lexer.kind = "comment" =>
        \A k \in DOMAIN scanned :
            (scanned[k].type = "EOF" /\ (k = 1 \/ scanned[k - 1].type # "EOF"))
               => AtFirstCharacter(k)

\* C19: in the auto-semicolon Lexer every token has line >= 1 and column >= 1
\* and carries the line on which it starts and the column of its first
\* character, also when a newline or the end of input follows it, and also
\* the synthesized SEMICOLON and EOF tokens.
C19_SemiTokenPositions ==
    lexer.kind = "semi" =>
        \A k \in DOMAIN scanned :
            /\ scanned[k].line >= 1
            /\ scanned[k].column >= 1
            /\ ~Synthesized("semi", scanned[k]) => AtFirstCharacter(k)

\* the single-character tokens ( ) { } + are at their character
C19_SingleCharacterTokens ==
    lexer.kind = "semi" =>
        \A k \in DOMAIN scanned :
            scanned[k].type \in Semi_SingleChar => AtFirstCharacter(k)


\* the token at the position a node carries
TokenOf(node) == TokAt(tokens, node.location.column)

RECURSIVE Leftmost(_)
Leftmost(expr) ==
    IF expr.type = "InfixExpression" THEN Leftmost(expr.left) ELSE expr

\* the location is that of the first token of the expression: of its
\* left-most operand, or of a parenthesis opened before that operand
LeadsTo(location, expr) ==
    /\ location.line = Leftmost(expr).location.line
    /\ location.column <= Leftmost(expr).location.column
    /\ \A c \in location.column..(Leftmost(expr).location.column - 1) :
          TokAt(tokens, c).type = "("

\* the node, and every node below it, is at the first token of its
\* construct; with `all` FALSE only the kinds of node are looked at that do
\* not take their position after another token was consumed
RECURSIVE WellLocated(_, _)
WellLocated(node, all) ==
    CASE node.type = "Program" ->
           /\ all => TokenOf(node).type = "PACKAGE"
           /\ \A i \in DOMAIN node.declarations : WellLocated(node.declarations[i], all)
      [] node.type = "FunctionDeclaration" ->
           /\ TokenOf(node).type = "FUNC"
           /\ WellLocated(node.body, all)
      [] node.type = "BlockStatement" ->
           /\ all => TokenOf(node).type = "{"
           /\ \A i \in DOMAIN node.statements : WellLocated(node.statements[i], all)
      [] node.type = "ExpressionStatement" ->
           /\ all => LeadsTo(node.location, node.expression)
           /\ WellLocated(node.expression, all)
      [] node.type = "ReturnStatement" ->
           /\ TokenOf(node).type = "RETURN"
           /\ WellLocated(node.returnValue, all)
      [] node.type = "InfixExpression" ->
           /\ all => LeadsTo(node.location, node)
           /\ WellLocated(node.left, all)
           /\ WellLocated(node.right, all)
      [] node.type = "CallExpression" ->
           /\ TokenOf(node).literal = node.function.value
           /\ node.function.location = node.location
           /\ \A i \in DOMAIN node.arguments : WellLocated(node.arguments[i], all)
      [] node.type = "IntegerLiteral" ->
           TokenOf(node).type = "INT" /\ parseInt(TokenOf(node).literal) = node.value
      [] node.type = "StringLiteral" ->
           TokenOf(node).type = "STRING" /\ TokenOf(node).literal = node.value
      [] node.type = "BooleanLiteral" ->
           TokenOf(node).type = IF node.value THEN "TRUE" ELSE "FALSE"
      [] node.type = "Identifier" ->
           TokenOf(node).type = "IDENT" /\ TokenOf(node).literal = node.value

\* C20: every AST node the parser builds is at the position of the first
\* token of its construct: Program at `package`, FunctionDeclaration at
\* `func`, BlockStatement at its `{`, ExpressionStatement and InfixExpression
\* at the first token of their left-most operand, CallExpression at the
\* callee, literals and identifiers at their own token.
C20_NodesAtLeadingToken ==
    pc = "parsed" => WellLocated(program, TRUE)

\* FunctionDeclaration, ReturnStatement, CallExpression, literals and
\* identifiers are at their first token
C20_LeadingTokenWhereTakenFirst ==
    pc = "parsed" => WellLocated(program, FALSE)


-----------------------------------------------------------------------------
(* Claims about comments and operators in the comment-aware Lexer *)

\* the indices of a text that lie inside a comment, found by reading the text
\* from index i on: "//" opens a comment that ends before the next line
\* break, "/*" one that ends with the next "*/"; neither opens a comment
\* inside a string literal. `unclosed` is the index at which a block comment
\* opens that the text does not close, 0 when there is none.
RECURSIVE CommentsFrom(_, _, _, _, _)
CommentsFrom(input, i, mode, start, inside) ==
    IF i > Len(input)
    THEN [inside |-> inside, unclosed |-> IF mode = "block" THEN start ELSE 0]
    ELSE IF mode = "code"
    THEN IF input[i] = "/" /\ i < Len(input) /\ input[i + 1] = "/"
         THEN CommentsFrom(input, i + 2, "line", i, inside \cup {i, i + 1})
         ELSE IF input[i] = "/" /\ i < Len(input) /\ input[i + 1] = "*"
         THEN CommentsFrom(input, i + 2, "block", i, inside \cup {i, i + 1})
         ELSE IF input[i] = "\""
         THEN CommentsFrom(input, i + 1, "string", i, inside)
         ELSE CommentsFrom(input, i + 1, "code", start, inside)
    ELSE IF mode = "string"
    THEN IF input[i] = "\"" \/ input[i] = "\n"
         THEN CommentsFrom(input, i + 1, "code", start, inside)
         ELSE CommentsFrom(input, i + 1, "string", start, inside)
    ELSE IF mode = "line"
    THEN IF input[i] = "\n"
         THEN CommentsFrom(input, i + 1, "code", start, inside)
         ELSE CommentsFrom(input, i + 1, "line", start, inside \cup {i})
    ELSE IF input[i] = "*" /\ i < Len(input) /\ input[i + 1] = "/"
         THEN CommentsFrom(input, i + 2, "code", start, inside \cup {i, i + 1})
         ELSE CommentsFrom(input, i + 1, "block", start, inside \cup {i})

Comments(input) == CommentsFrom(input, 1, "code", 0, {})

\* the text with every character of a comment but a line break replaced by a
\* space: a text without comments whose other characters are where they were
Blanked(input) ==
    [i \in 1..Len(input) |->
        IF i \in Comments(input).inside /\ input[i] # "\n" THEN " " ELSE input[i]]

\* the tokens nextToken returns up to and including the first EOF
RECURSIVE ScanAll(_, _)
ScanAll(L, acc) ==
    LET r == nextToken(L)
    IN IF r.token.type = "EOF"
       THEN Append(acc, r.token)
       ELSE ScanAll(r.lexer, Append(acc, r.token))

\* the tokens of the text around the comments
TokensAround(input) == ScanAll(Lexer(Blanked(input)), <<>>)

\* the k-th token returned is the one the text has there when its comments
\* are taken for white space (`around` are the tokens of that text); where a
\* block comment is left open, it is the ILLEGAL token at the place the
\* comment opens, and EOF follows
AsWithoutComments(input, around, token, k) ==
    IF k < Len(around) THEN token = around[k]
    ELSE IF k = Len(around) /\ Comments(input).unclosed # 0
    THEN token = [type |-> "ILLEGAL", literal |-> UnterminatedComment,
                  line |-> LineAt(input, Comments(input).unclosed),
                  column |-> ColumnAt(input, Comments(input).unclosed)]
    ELSE token.type = "EOF" /\ token.literal = <<>>

\* C21: the Lexer returns no token for text inside a "//" or "/* */" comment,
\* and the token returned after a comment is the first token that follows it;
\* a block comment that is not closed gives an ILLEGAL token with the literal
\* 'Unterminated multi-line comment', then EOF, and the scan ends. (Stated of
\* the token the last call returned: the earlier ones are unchanged.)
C21_CommentsSkipped ==
    (lexer.kind = "comment" /\ scanned # <<>>) =>
        /\ AsWithoutComments(lexer.input, TokensAround(lexer.input),
                             LastOf(scanned), Len(scanned))
        /\ CountNonEOF(scanned) <= Len(lexer.input)

\* an identifier, a line comment, and on the next line "==" and a number
C21_Witness ==
    /\ lexer.kind = "comment"
    /\ lexer.input = <<"a", "/", "/", "a", "\n", " ", "=", "=", "1", "1">>
    /\ Len(scanned) = 4
    /\ scanned[2].type = "=="
    /\ scanned[3].literal = <<"1", "1">>
    /\ scanned[4].type = "EOF"

\* an open block comment was reported and EOF returned after it
C21_UnclosedReported ==
    (/\ lexer.kind = "comment"
     /\ lexer.input = <<"a", "/", "*", "a">>
     /\ Len(scanned) >= 3)
       => /\ scanned[2].type = "ILLEGAL"
          /\ scanned[2].literal = UnterminatedComment
          /\ scanned[3].type = "EOF"

\* the token type of an operator or delimiter given its text (token.ts 13-36)
TokenTypeOf(literal) ==
    CASE literal = <<"=", "=">> -> "=="
      [] literal = <<"!", "=">> -> "!="
      [] literal = <<"<", "=">> -> "<="
      [] literal = <<">", "=">> -> ">="
      [] OTHER -> literal[1]

\* the operators and delimiters of a text by longest match, from index i on:
\* "=", "!", "<" or ">" with "=" right after it is one token of two
\* characters, every other character that is no white space is a token
RECURSIVE LongestMatch(_, _)
LongestMatch(text, i) ==
    IF i > Len(text) THEN <<>>
    ELSE IF isWhitespace(text[i]) THEN LongestMatch(text, i + 1)
    ELSE IF text[i] \in {"=", "!", "<", ">"} /\ i < Len(text) /\ text[i + 1] = "="
    THEN <<[type |-> TokenTypeOf(<<text[i], "=">>), literal |-> <<text[i], "=">>]>>
            \o LongestMatch(text, i + 2)
    ELSE <<[type |-> TokenTypeOf(<<text[i]>>), literal |-> <<text[i]>>]>>
            \o LongestMatch(text, i + 1)

\* a text of operators, delimiters and white space only
IsOperatorText(input) ==
    \A i \in DOMAIN input : input[i] \in OperatorAlphabet \/ isWhitespace(input[i])

\* the k-th token returned is the k-th of the longest match (comments are
\* white space), and EOF follows the last one
MatchedLongest(input, matched, token, k) ==
    IF k <= Len(matched)
    THEN (Comments(input).unclosed = 0 \/ k < Len(TokensAround(input)))
            => /\ token.type = matched[k].type
               /\ token.literal = matched[k].literal
    ELSE Comments(input).unclosed = 0
            => token.type = "EOF" /\ token.literal = <<>>

\* C22: the Lexer tokenizes operators and delimiters by longest match with one
\* character of lookahead: "==", "!=", "<=", ">=" are one token each, and
\* otherwise = ! < > + - * / ( ) { } , ; are each their single-character
\* token, whose literal is the source text. (Stated of the token the last
\* call returned.)
C22_LongestMatch ==
    (lexer.kind = "comment" /\ IsOperatorText(lexer.input) /\ scanned # <<>>) =>
        MatchedLongest(lexer.input, LongestMatch(Blanked(lexer.input), 1),
                       LastOf(scanned), Len(scanned))

\* the types of the tokens returned so far
TypesOf(toks) == [k \in DOMAIN toks |-> toks[k].type]

\* `=+(){},;` was scanned to its end
C22_Witness ==
    /\ lexer.kind = "comment"
    /\ lexer.input = <<"=", "+", "(", ")", "{", "}", ",", ";">>
    /\ TypesOf(scanned) = <<"=", "+", "(", ")", "{", "}", ",", ";", "EOF">>

\* `===` gives EQ and then ASSIGN
C22_TripleEquals ==
    (/\ lexer.kind = "comment"
     /\ lexer.input = <<"=", "=", "=">>
     /\ Len(scanned) >= 3)
       => /\ scanned[1].type = "==" /\ scanned[1].literal = <<"=", "=">>
          /\ scanned[2].type = "=" /\ scanned[2].literal = <<"=">>
          /\ scanned[3].type = "EOF"

-----------------------------------------------------------------------------
(* Claims about the build command *)

\* the tokenizer has consumed the whole source, or it has thrown
TokenizerReturned ==
    lexError # NoError \/ lexer.position >= Len(lexer.input)

\* the source has a lexical failure: a call of nextToken on it throws, or
\* returns an ILLEGAL token
HasLexicalFailure ==
    \/ Len(tokens) < Len(lexer.input) + MaxCallsAtEnd
    \/ \E k \in DOMAIN tokens : tokens[k].type = "ILLEGAL"

\* a method of the Parser has run after the constructor
ParserHasActed == pc \notin {"source", "parseProgram"}

AnalysisStarted == pc \in {"analyzing", "rejected", "analyzed", "generated", "generate threw"}

GenerationStarted == pc \in {"generated", "generate threw"}

\* parseProgram has returned the Program
ParsingReturned ==
    /\ program.type = "Program"
    /\ parseError = NoError
    /\ currentToken.type = "EOF"

\* C23: the phases of one compilation run one after another without overlap:
\* the tokenizer has consumed the whole source and returned before the parser
\* acts, parsing has returned before analysis starts, and analysis before IR
\* generation; so a lexical failure anywhere in the source is reported in
\* preference to a syntax error of the same source.
C23_PhasesInSequence ==
    /\ ParserHasActed => TokenizerReturned
    /\ AnalysisStarted => ParsingReturned
    /\ GenerationStarted => (semanticError = NoSemanticError /\ scopeStack = <<>>)
    /\ (pc # "source" /\ HasLexicalFailure) => parseError = NoError

\* parsing has returned, and with it the tokenizer, before analysis starts,
\* and analysis has returned before IR generation; no generator exists before
C23_AnalysisAfterParsing ==
    /\ AnalysisStarted => (ParsingReturned /\ TokenizerReturned)
    /\ GenerationStarted => (semanticError = NoSemanticError /\ scopeStack = <<>>)
    /\ ~GenerationStarted => generator = [type |-> "none"]

\* the Parser has thrown a syntax error while the lexer is before the place
\* of the source at which it fails
C23_SyntaxErrorBeforeLexicalFailure ==
    /\ pc = "thrown"
    /\ HasLexicalFailure
    /\ ~TokenizerReturned
    /\ \A k \in DOMAIN scanned : scanned[k].type # "ILLEGAL"

\* an error of the class `class` of errors.ts: its name is the class's name
\* and its message begins '<phase> error at line L, column C:' with the
\* line and column of a place in the source
IsCompilerError(error, class, phase) ==
    /\ error.name = class
    /\ error.message # <<>>
    /\ error.message[1] = phase
    /\ error.line >= 1
    /\ error.column >= 1

\* C24: every failure raised while tokenizing is a LexicalError and every
\* failure raised while parsing is a SyntaxError; each carries the source
\* line and column, and its message has the form
\* '<phase> error at line L, column C: <message>' with the phase `lexical`
\* or `syntax`.
C24_TypedFailures ==
    /\ lexError # NoError => IsCompilerError(lexError, "LexicalError", "lexical error")
    /\ parseError # NoError => IsCompilerError(parseError, "SyntaxError", "syntax error")

\* the failures are plain Errors: the lexer's says 'Unterminated string
\* literal', the parser's begins 'Parser error' and has the line and column
\* of currentToken
C24_PlainErrors ==
    /\ lexError # NoError =>
          /\ lexError.name = "Error"
          /\ lexError.message = <<"Unterminated string literal">>
          /\ lexer.kind = "semi"
    /\ parseError # NoError =>
          /\ parseError.name = "Error"
          /\ parseError.message[1] = "Parser error"
          /\ parseError.line = currentToken.line
          /\ parseError.column = currentToken.column

\* the lexer has thrown while the Parser was reading tokens
C24_LexerThrew == pc = "lexer threw" /\ lexError # NoError /\ pos >= 1

-----------------------------------------------------------------------------
(* Claims about the ErrorCollector *)

\* the errors added by the first n calls since the last clear among them, in
\* the order in which they were added
RECURSIVE AddedSinceClear(_, _)
AddedSinceClear(log, n) ==
    IF n = 0 THEN <<>>
    ELSE IF log[n].op = "clear" THEN <<>>
    ELSE IF log[n].op = "add" THEN Append(AddedSinceClear(log, n - 1), log[n].arg)
    ELSE AddedSinceClear(log, n - 1)

\* the messages of a sequence of errors, numbered from `first` on, one to a
\* line
RECURSIVE Numbered(_, _)
Numbered(errors, first) ==
    IF errors = <<>> THEN <<>>
    ELSE <<ToString(first), ". ">> \o Head(errors).message
            \o (IF Len(errors) = 1 THEN <<>> ELSE <<"\n">>)
            \o Numbered(Tail(errors), first + 1)

\* what a call returned is what a sequence with the elements `content` gives
AnswersFor(call, content) ==
    CASE call.op = "hasErrors" -> call.result = (content # <<>>)
      [] call.op = "throwIfErrors" ->
           call.result = IF content = <<>> THEN "undefined" ELSE [thrown |-> content[1]]
      [] call.op = "getErrorReport" ->
           /\ (call.result = <<"No errors">>) <=> (content = <<>>)
           /\ content # <<>> => call.result = Numbered(content, 1)
      [] call.op = "getErrors" -> heap[call.result] = content
      [] OTHER -> TRUE

\* C25: the ErrorCollector behaves as a sequence: after any series of calls
\* its content is exactly the errors added since the last clear, in insertion
\* order; hasErrors is true iff it is non-empty, throwIfErrors throws its
\* first element and nothing when it is empty, getErrorReport is 'No errors'
\* iff it is empty and otherwise lists the messages numbered from 1; and no
\* read operation, nor a change of the array getErrors returned, changes the
\* content. (The answers are stated of the last call made.)
C25_CollectorIsSequence ==
    collector # [type |-> "none"] =>
        /\ errorsOf(collector, heap) = AddedSinceClear(calls, Len(calls))
        /\ calls # <<>> =>
              AnswersFor(LastOf(calls), AddedSinceClear(calls, Len(calls) - 1))

\* two errors were added, getErrors was called, and the caller changed the
\* array it got
C25_Witness ==
    /\ Len(calls) = 4
    /\ calls[1].op = "add" /\ calls[2].op = "add" /\ calls[1].arg # calls[2].arg
    /\ calls[3].op = "getErrors"
    /\ calls[4].op = "modify"
    /\ Len(errorsOf(collector, heap)) = 2
    /\ heap[calls[3].result] # errorsOf(collector, heap)

\* the report of the two errors of the test
C25_ReportOfTwo ==
    (/\ Len(calls) = 3
     /\ calls[1].op = "add" /\ calls[1].arg.phase = "lexical"
     /\ calls[2].op = "add" /\ calls[2].arg.phase = "syntax"
     /\ calls[3].op = "getErrorReport")
       => calls[3].result =
             <<"1", ". ", "lexical", " error at line ", "1", ", column ", "1", ": ",
               "First error", "\n",
               "2", ". ", "syntax", " error at line ", "2", ", column ", "5", ": ",
               "Second error">>

-----------------------------------------------------------------------------
(* More claims about the generator *)

\* the piece of an instruction line that ends the array type of the pointer
\* to a string constant, and the piece of a constant's line before its length
PointerTypeEnd == " x i8]* "

ConstantTypeStart == " = private unnamed_addr constant ["

IndexOfPiece(line, piece) == CHOOSE j \in DOMAIN line : line[j] = piece

\* a line that takes the address of a string constant, the constant's name
\* and the length N of the array type `[N x i8]*` used for it
TakesStringAddress(line) == \E j \in DOMAIN line : line[j] = PointerTypeEnd

AddressedName(line) ==
    SubSeq(line, IndexOfPiece(line, PointerTypeEnd) + 1, Len(line) - 1)

AddressedLength(line) == line[IndexOfPiece(line, PointerTypeEnd) - 1]

\* the line declares the constant `name` as an array of `length` bytes
DeclaresArray(line, name, length) ==
    /\ \E j \in DOMAIN line : line[j] = ConstantTypeStart
    /\ SubSeq(line, 1, IndexOfPiece(line, ConstantTypeStart) - 1) = name
    /\ line[IndexOfPiece(line, ConstantTypeStart) + 1] = length

\* a print of a string literal has been generated
StringAddressTaken ==
    /\ pc = "generated"
    /\ \E i \in DOMAIN Output : TakesStringAddress(Output[i])

\* C26: in the IR for a print of a string literal, the array type of the
\* getelementptr that takes the address of the string constant,
\* `[N x i8]* @.str.k`, is the type with which @.str.k was declared, for
\* every string content, escape sequences included.
C26_AddressTypeAsDeclared ==
    pc = "generated" =>
        \A i \in DOMAIN Output :
            TakesStringAddress(Output[i]) =>
                \E d \in DOMAIN Output :
                    DeclaresArray(Output[d], AddressedName(Output[i]),
                                  AddressedLength(Output[i]))

\* the types agree for a string without escape sequences
C26_SameTypeWithoutEscapes ==
    (StringPrintGenerated /\ \A k \in DOMAIN PrintedArgument(1).value :
                                 PrintedArgument(1).value[k] # "\\")
       => /\ StringAddressTaken
          /\ \A i \in DOMAIN Output :
                TakesStringAddress(Output[i]) =>
                    \E d \in DOMAIN Output :
                        DeclaresArray(Output[d], AddressedName(Output[i]),
                                      AddressedLength(Output[i]))

\* the constant is declared under the name whose address is taken, with
\* another length
C26_DeclaredWithAnotherLength ==
    /\ StringPrintGenerated
    /\ PrintedArgument(1).value = <<"a", "\\", "n">>
    /\ \E i, d \in DOMAIN Output :
          /\ TakesStringAddress(Output[i])
          /\ AddressedLength(Output[i]) = "4"
          /\ DeclaresArray(Output[d], AddressedName(Output[i]), "3")

-----------------------------------------------------------------------------
(* Claims about variables and statements in the analyzer *)

\* the expression refers to a variable: an identifier that is not the name
\* of the function of a call
RECURSIVE UsesVariable(_)
UsesVariable(expr) ==
    CASE expr.type = "Identifier" -> TRUE
      [] expr.type = "CallExpression" ->
           \E i \in DOMAIN expr.arguments : UsesVariable(expr.arguments[i])
      [] expr.type = "InfixExpression" -> UsesVariable(expr.left) \/ UsesVariable(expr.right)
      [] OTHER -> FALSE

\* some expression statement of the program uses a variable
VariableInExpressionStatement ==
    \E d \in DOMAIN program.declarations :
        \E s \in DOMAIN program.declarations[d].body.statements :
            /\ program.declarations[d].body.statements[s].type = "ExpressionStatement"
            /\ UsesVariable(program.declarations[d].body.statements[s].expression)

\* the names a program may use for a variable
VariableNames == {NameX, NameFoo, NameMain, NamePrint}

\* C27: during analyze no binding is added to any scope: every scope on the
\* stack is empty in every reachable state; so inferType on any Identifier,
\* a reference to a parameter of the enclosing function included, fails with
\* 'Undefined variable', and no program that uses a variable in an
\* expression statement passes analysis.
C27_ScopesStayEmpty ==
    /\ \A i \in DOMAIN scopeStack : scopeStack[i] = EmptyScope
    /\ \A name \in VariableNames :
          inferType([type |-> "Identifier", value |-> name, location |-> At(4)],
                    scopeStack)
             = Throws("Error", <<"Undefined variable", name>>, NoLocation)
    /\ VariableInExpressionStatement => pc # "analyzed"

\* `func foo(x int) int { x }` was rejected for its use of the parameter x
C27_Witness ==
    /\ given.family = "body"
    /\ Len(program.declarations[1].parameters) = 1
    /\ program.declarations[1].parameters[1].name = NameX
    /\ program.declarations[1].body.statements = <<ExpressionStatement(LeafIdent)>>
    /\ pc = "rejected"
    /\ semanticError.message = <<"Undefined variable", NameX>>
    /\ Len(scopeStack) = 2

-----------------------------------------------------------------------------
(* Claims about the function that generate lowers *)

\* the declarations of the program that are functions named `main`
MainFunctions ==
    SelectSeq(program.declarations,
              LAMBDA d : d.type = "FunctionDeclaration" /\ d.name = NameMain)

\* the program with nothing but its function main
MainAlone == ProgramOf(program.package, MainFunctions)

\* the first text of IR is that of the program given
FirstGenerated == pc = "generated" /\ Len(irTexts) >= 1

\* C28: the body emitted inside `define i32 @main()` is the lowering of the
\* function declared with the name main, wherever it appears among the
\* declarations: the text generated for a program is the text generated for
\* the same program without its functions of other names.
C28_MainIsLowered ==
    FirstGenerated => irTexts[1] = generate(LLVMGenerator, MainAlone).value

\* with main as the first declaration, the functions that follow it leave
\* the text as it is
C28_MainFirstIsLowered ==
    FirstGenerated /\ Len(program.declarations) >= 1
                   /\ program.declarations[1].name = NameMain
        => irTexts[1] = generate(LLVMGenerator, MainAlone).value

\* `func foo() { print("a") }` before `func main() { print(4) }`: the text
\* generated is that of a main that prints "a"
C28_FooLoweredAsMain ==
    /\ FirstGenerated
    /\ program.declarations = <<FooOf(<<PrintStatement(StringLiteral(<<"a">>))>>),
                                FunctionDeclaration(NameMain, <<>>, NullNode,
                                    <<PrintStatement(IntegerLiteral(4))>>)>>
    /\ irTexts[1] = generate(LLVMGenerator,
                             MainOf(<<PrintStatement(StringLiteral(<<"a">>))>>)).value

\* the expression a statement holds
ExpressionOf(stmt) ==
    IF stmt.type = "ReturnStatement" THEN stmt.returnValue ELSE stmt.expression

\* the scope stack while a function body is analyzed: the scope of analyze
\* and the scope of the function
BodyStack == <<EmptyScope, EmptyScope>>

\* every expression of the given kinds of statement, in every function body,
\* passes inferType
BodiesWellTyped(kinds) ==
    \A d \in DOMAIN program.declarations :
        \A s \in DOMAIN program.declarations[d].body.statements :
            program.declarations[d].body.statements[s].type \in kinds
                => inferType(ExpressionOf(program.declarations[d].body.statements[s]),
                             BodyStack).ok

\* C29: every expression in a function body is type-checked by analyze,
\* whatever kind of statement contains it: a program passes analysis only if
\* the expressions of its return statements pass inferType as those of its
\* expression statements do.
C29_EveryStatementChecked ==
    pc = "analyzed" => BodiesWellTyped({"ExpressionStatement", "ReturnStatement"})

\* the expressions of expression statements are checked
C29_ExpressionStatementsChecked ==
    pc = "analyzed" => BodiesWellTyped({"ExpressionStatement"})

\* `func foo() int { return "a" + 1 }` passed analysis
C29_IllTypedReturnAccepted ==
    /\ given.family = "body"
    /\ program.declarations[1].parameters = <<>>
    /\ program.declarations[1].body.statements
          = <<ReturnStatement(Infix(<<"+">>, LeafString, LeafInt))>>
    /\ pc = "analyzed"

\* `func foo() int { return x }` with no x declared passed analysis
C29_UndefinedReturnAccepted ==
    /\ given.family = "body"
    /\ program.declarations[1].parameters = <<>>
    /\ program.declarations[1].body.statements = <<ReturnStatement(LeafIdent)>>
    /\ pc = "analyzed"

-----------------------------------------------------------------------------
(* Claims about the temporary files of CompilerPipeline.compile *)

\* compile returned, having been asked for an executable, with no file of
\* these names there before and no file operation that threw
FinishedBuild ==
    /\ pc = "returned"
    /\ ~compile.options.emitLLVM
    /\ compile.tools = "found"
    /\ ~exists(compile.before, IrPath)
    /\ ~exists(compile.before, AssemblyPath)
    /\ ~compile.threw

NoTemporaryLeft == ~exists(disk, IrPath) /\ ~exists(disk, AssemblyPath)

\* C30: when compile finishes with emitLLVM = false, whether llc and clang
\* both succeed, llc fails, or clang fails, neither `<output>.ll` nor
\* `<output>.s` is left behind.
C30_NoTemporaryLeft ==
    /\ FinishedBuild
    /\ \/ compile.llc = "succeeded" /\ compile.clang = "succeeded"
       \/ compile.llc = "failed"
       \/ compile.llc = "succeeded" /\ compile.clang = "failed"
    => NoTemporaryLeft

\* when both tools succeed, or llc fails, nothing is left
C30_NoneLeftUnlessClangFails ==
    /\ FinishedBuild
    /\ \/ compile.llc = "succeeded" /\ compile.clang = "succeeded"
       \/ compile.llc = "failed"
    => NoTemporaryLeft

\* the IR file is removed in the three cases
C30_IrRemoved == FinishedBuild => ~exists(disk, IrPath)

\* clang failed and compile returned its failure with `<output>.s` on the disk
C30_AssemblyLeft ==
    /\ FinishedBuild
    /\ compile.llc = "succeeded"
    /\ compile.clang = "failed"
    /\ compile.result = Failure("clang")
    /\ disk = {File(AssemblyPath, "assembly")}

\* both tools succeeded and only the executable is on the disk
C30_OnlyExecutable ==
    /\ FinishedBuild
    /\ compile.result = Success
    /\ disk = {File(OutputPath, "executable")}

====
